---- MODULE Spec2Model ----
(***************************************************************************)
(* Passage: the event-triggered execution pipeline of the digital-will     *)
(* backend.                                                                *)
(*                                                                         *)
(*   Spec            DigitalExecutor (agent/executor.py) with its callers  *)
(*                   execute_ai_task (services/tasks.py) and               *)
(*                   RecoveryAgent.search_missing_money                    *)
(*                   (agent/recovery_agent.py), one call at a time.        *)
(*   SpecConcurrent  DigitalExecutor with several run_task calls in        *)
(*                   flight together.                                      *)
(*   SpecListener    BlockchainListener                                    *)
(*                   (services/blockchain_listener.py) with the ledger,    *)
(*                   the will store and the unseal service                 *)
(*                   (services/lit_decrypt.py).                            *)
(*   SpecBus         WebSocketManager (services/websocket_manager.py)      *)
(*                   with its subscribers and its publisher.               *)
(*   SpecRegistry    WebSocketManager with every method called:            *)
(*                   personal messages and broadcasts too.                 *)
(*   SpecTotp        TotpHandler (services/totp_handler.py), for every     *)
(*                   HOTP function.                                        *)
(*   SpecEnhance     DigitalExecutor._enhance_task_with_2fa.               *)
(*   SpecTasks       the task mapping (services/tasks.py), the workers     *)
(*                   and the status endpoint (main.py).                    *)
(*   SpecStore       DigitalWillService (services/database.py).            *)
(*                                                                         *)
(* Coroutines are cut at their suspension points: the code between two     *)
(* awaits that really suspend is one action.  _emit_event hands a message  *)
(* to websocket_manager.send_to_execution; "published" means appended to   *)
(* events[e], the stream of messages handed over for execution_id e.       *)
(***************************************************************************)
EXTENDS Integers, Sequences, FiniteSets, Bags, TLC

(***************************************************************************)
(* Bounds of the model and constants of the program.                       *)
(***************************************************************************)
\* number of run_task calls that may be in flight together
NumExecs == 2

\* max_retries: default of _run_task_with_retry, and what run_task passes
MaxRetries == 3

Execs == 1..NumExecs

\* subjects on the ledger
NumUsers == 1

\* websockets that may subscribe to the execution_id
NumSubs == 3

\* messages published for the execution_id
MaxMsgs == 2

\* broadcast calls
MaxBroadcasts == 1

\* wills the store holds at most when wills are saved and deleted
MaxStore == 3

\* websockets still to come when every method of the manager is exercised
RegistrySubs == 2

\* StatusChanged events the ledger records
MaxEvents == 2

\* polling cycles of listen_for_events
MaxPolls == 2

\* wills stored for a subject
MaxWills == 2

\* the last second of the clock
MaxTime == 120

\* the interval of pyotp.TOTP: 30 seconds (totp_handler.py 25, 45)
TimeStep == 30

\* valid_window=1 (totp_handler.py 46)
ValidWindow == 1

\* base32 seeds
ValidSeeds == {"JBSWY3DPEHPK3PXP"}

\* a seed that is not base32: pyotp raises on it
BadSeed == "not base32!"

\* six-digit codes
Codes == {"000001", "000002", "000003"}

\* a session without totpSecret, or with an empty one (executor.py 460)
NoSeed == ""

\* what generate_totp returns for a seed it cannot use (totp_handler.py 30)
None == "None"

\* the clock advances by half a step or by a step
Ticks == {15, 30}

\* the instants of the clock
Times == {t \in 0..MaxTime : t % 15 = 0}

\* the counters the HOTP values are needed for
Counters == 0..((MaxTime \div TimeStep) + ValidWindow)

\* Celery task ids
TaskIds == {"t1", "t2"}

\* the sets of one execution id
MaxSets == 2

\* UserStatus (blockchain_listener.py 60-62)
USER_STATUS_ALIVE == 0

USER_STATUS_PENDING_VERIFICATION == 1

USER_STATUS_DECEASED == 2

\* `current_block - 100` (blockchain_listener.py 260)
Lookback == 100

Users == 1..NumUsers

\* a subject who has wills in the store and no event on the ledger
OtherSubject == NumUsers + 1

Subs == 1..NumSubs

\* members one for loop of send_to_execution meets at most: the iterator
\* walks a table of a few slots once
MaxYields == NumSubs

Statuses == {USER_STATUS_ALIVE, USER_STATUS_PENDING_VERIFICATION,
             USER_STATUS_DECEASED}

\* guardian addresses; ZeroAddress is 0x000...0 (blockchain_listener.py 310)
ZeroAddress == 0

GuardianIds == {1, 2, 3}

\* grace_period_hours=72 (blockchain_listener.py 320)
GRACE_PERIOD_HOURS == 72

\* `verification_timestamp = None` (blockchain_listener.py 299)
NoTimestamp == -1

\* values of the lastSeen field of getUserInfo, in hours since the epoch
LastSeenValues == {0, 2}

\* values of datetime.utcnow() when a notification is built, in hours since
\* the epoch
Clock == {3, 4}

WillIds == 1..(NumUsers * MaxWills)

\* retry budgets explored for the max_retries parameter
Budgets == 0..MaxRetries

\* who calls run_task: the listener and other direct callers ("run_task"),
\* the Celery job execute_ai_task ("job"), a recovery search ("recovery")
Entries == {"run_task", "job", "recovery"}

\* what becomes of an artifact capture (executor.py 325-331, 367-373):
\*   "no_pages"  context.pages is empty, capture_screenshot is not called
\*   "failed"    capture_screenshot caught an exception and returned None
\*               (screenshot_service.py 78-80)
\*   "captured"  capture_screenshot returned the metadata
Captures == {"no_pages", "failed", "captured"}

VARIABLES
    \* ---- DigitalExecutor fields (executor.py 35-41) and its environment
    initialized,    \* self._initialized
    playwright,     \* self.playwright: 0 is None, n the n-th instance started
    browser,        \* self.browser: 0 is None, n the n-th browser launched
    llm,            \* self.llm is set
    pwStarts,       \* Playwright instances started so far
    brLaunches,     \* browsers launched so far
    apiKey,         \* settings.OPENAI_API_KEY is configured
    contexts,       \* every BrowserContext created: [creator, closed, users,
                    \* closers]
    \* ---- one run_task call per e \in Execs
    pc,             \* where call e stands
    entry,          \* its caller
    session,        \* session_data is truthy
    max_retries,    \* the budget handed to _run_task_with_retry
    attempt,        \* loop variable of _run_task_with_retry
    context,        \* run_task's local `context` (0 is None)
    cctx,           \* _create_browser_context's local `context` (0 is None)
    events,         \* messages published for the call's execution_id
    invocations,    \* agent.run calls made
    failures,       \* agent.run calls that raised
    last_error,     \* _run_task_with_retry's local `last_error`
    attempt_log,    \* per attempt made: how agent.run ended and what became of
                    \* the artifact capture that followed
    result,         \* what run_task returned
    raised,         \* run_task let an exception reach its caller
    workload,       \* the calls explored: which, from which callers, with
                    \* which budgets and which outcomes of the artifact capture
    \* ---- BlockchainListener and its collaborators
    block_number,   \* ledger height
    logs,           \* StatusChanged events on the ledger
    status,         \* on-chain status per subject
    wills_db,       \* _digital_wills_db (database.py 11)
    guardians,      \* the guardians[3] field of getUserInfo, per subject
    is_listening,   \* self.is_listening
    stop_called,    \* stop_listening has been called
    lpc,            \* where listen_for_events stands
    polls,          \* polling cycles completed
    tasks,          \* bag of the handler tasks created and not yet finished
    runs,           \* run_task calls started, per ledger event and will
    sends,          \* guardian notifications attempted, per event and guardian
    notices,        \* the send_guardian_notification calls made: for which
                    \* event and guardian slot, with which deadline and result
    unseals,        \* decrypt_credential calls: [user, status, plaintext]
    fins,           \* _process_will_entry calls that returned, per event, will
    handled,        \* the handler tasks that finished, and what each did
    agent_tasks,    \* the task text handed to the agent, per will
    \* ---- WebSocketManager, for one execution_id, and its publisher
    execution_connections,  \* self.execution_connections[execution_id]; the
                            \* key is absent when the set is empty
    sub,            \* each websocket: "new", "open" (its endpoint is serving
                    \* it) or "closed" (its endpoint has ended)
    received,       \* the messages each websocket was sent, in order
    broken,         \* the websockets for which a send_json call raised
    joined,         \* per websocket: the sends started and the sends
                    \* returned when it was registered
    msg,            \* send_to_execution calls made for the execution_id
    spc,            \* where the publisher stands: "idle" or "sending"
    it,             \* the set iterator of send_to_execution's for loop
    disconnected,   \* send_to_execution's local `disconnected`
    dropped,        \* the messages published while the key was absent
    last,           \* the last send_to_execution call, once it is over
    active_connections,  \* self.active_connections
    bcast,          \* the broadcast call under way, the set iterator of
                    \* its for loop and its local `disconnected`
    \* ---- TotpHandler (services/totp_handler.py) and the pyotp library
    hotp,           \* the HOTP value of every seed and counter: HMAC-SHA1
                    \* truncated to six digits, some function into the codes
    clock,          \* time.time(), in seconds
    verdict,        \* the last verify_totp call: the code, when it was
                    \* generated, when it was verified, the answer
    instruction,    \* the last text _enhance_task_with_2fa returned: the
                    \* seed of the session, the code the text tells to use
    \* ---- the task mapping (services/tasks.py), the Celery result backend
    \* ---- and the status endpoint (main.py)
    execution_to_task,  \* _execution_to_task: execution id -> Celery task id
    celery,         \* per task id: the state Celery reports, the execution
                    \* it was queued for, the result it stored
    response,       \* the last answer of GET /api/tasks/{id}/status
    last_set,       \* history: the task id last set for each execution id
    set_count,      \* history: the number of sets for each execution id
    run_outcome,    \* history: the outcome run_task returned, per execution
    \* ---- DigitalWillService (services/database.py); the store itself is
    \* ---- wills_db
    removed         \* the entries the last delete_will call took out

evars == <<initialized, playwright, browser, llm, pwStarts, brLaunches, apiKey,
           contexts, pc, entry, session, max_retries, attempt, context, cctx,
           events, invocations, failures, last_error, attempt_log, result,
           raised, workload>>

lvars == <<block_number, logs, status, wills_db, guardians, is_listening,
           stop_called, lpc, polls, tasks, runs, sends, notices, unseals, fins,
           handled, agent_tasks>>

bvars == <<execution_connections, sub, received, broken, joined, msg, spc, it,
           disconnected, dropped, last, active_connections, bcast>>

tvars == <<hotp, clock, verdict, instruction>>

\* the state of the components that stand beside the executor, the listener
\* and the bus
kvars == <<execution_to_task, celery, response, last_set, set_count,
           run_outcome>>

dvars == <<removed>>

ovars == <<tvars, kvars, dvars>>

vars == <<evars, lvars, bvars, ovars>>

(***************************************************************************)
(* Messages and outcomes.                                                  *)
(***************************************************************************)
\* the top-level keys of the dict a publisher hands to send_to_execution:
\* _emit_event of the executor (executor.py 489-494) and of the recovery
\* agent (recovery_agent.py 809-814) put the execution_id beside the data,
\* execute_ai_task puts it inside the data (tasks.py 73-81, 97-106, 132-140)
TopLevelKeys(by) ==
    IF by = "job"
    THEN {"type", "data", "timestamp"}
    ELSE {"type", "execution_id", "data", "timestamp"}

\* a message handed to send_to_execution; `by` is the publisher
Msg(type, step, st, att, success, by) ==
    [type |-> type, step |-> step, status |-> st, attempt |-> att,
     success |-> success, by |-> by, keys |-> TopLevelKeys(by)]

\* `last_error = None` (executor.py 311), and `"error": None`
NoError == <<"none", 0>>

\* the exception agent.run raised on attempt att
AttemptError(att) == <<"attempt", att>>

\* what run_task has not returned yet
NoResult ==
    [kind |-> "none", success |-> FALSE, hasAttempts |-> FALSE, attempts |-> 0,
     error |-> NoError]

\* mutant of SuccessResult: attempts counts the failed attempts only
SuccessResultFailedOnly(att) ==
    [kind |-> "returned", success |-> TRUE, hasAttempts |-> TRUE,
     attempts |-> att - 1, error |-> <<"none", 0>>]

\* the dict returned on success (executor.py 346-351)
SuccessResult(att) ==
    [kind |-> "returned", success |-> TRUE, hasAttempts |-> TRUE,
     attempts |-> att, error |-> <<"none", 0>>]

\* the dict returned after the loop (executor.py 394-400): its error text
\* holds str(last_error)
ExhaustedResult(maxr, err) ==
    [kind |-> "returned", success |-> FALSE, hasAttempts |-> TRUE,
     attempts |-> maxr, error |-> err]

\* the dict returned by run_task's except branch (executor.py 260-264):
\* it has no "attempts" key
ExceptResult ==
    [kind |-> "returned", success |-> FALSE, hasAttempts |-> FALSE,
     attempts |-> 0, error |-> <<"setup", 0>>]

Emit(e, msgs) == events' = [events EXCEPT ![e] = @ \o msgs]

(***************************************************************************)
(* DigitalExecutor: small pieces of the code, one operator each.           *)
(***************************************************************************)
\* mutant of Caught: last_error keeps the first exception
CaughtFirstOnly(prev, att) == IF prev = NoError THEN AttemptError(att) ELSE prev

\* `except Exception as e: last_error = e` (executor.py 353-354)
Caught(prev, att) == AttemptError(att)

\* mutant of InRange: the loop runs one attempt too many
InRangeOffByOne(att, maxr) == att <= maxr + 1

\* range(1, max_retries + 1) still has `att` in it (executor.py 313)
InRange(att, maxr) == att <= maxr

\* mutant of HasNextAttempt: a retry is announced after the last attempt too
HasNextAttemptInclusive(att, maxr) == att <= maxr

\* `if attempt < max_retries` (executor.py 375)
HasNextAttempt(att, maxr) == att < maxr

\* mutant of AgentContext: the context is kept on the executor, so a call
\* picks up the one created last
AgentContextLatest(e) == Len(contexts)

\* the context BrowserUseBrowser and the retry loop are given: run_task's
\* own local (executor.py 223, 249-250)
AgentContext(e) == context[e]

\* the object browser.new_context() returns is a new one (executor.py 89, 209)
NewContextId == Len(contexts) + 1

\* `finally: if context:` closes run_task's local only (executor.py 266-272)
ContextToClose(e) == context[e]

Use(c, e) == [contexts EXCEPT ![c].users = @ \cup {e}]

\* what the caller of run_task does once run_task has returned `r`
\*   execute_ai_task publishes its own execution_completed (tasks.py 93-111)
\*   search_missing_money returns early on failure, else publishes
\*   recovery_completed (recovery_agent.py 115-145)
AfterReturn(e, r) ==
    CASE entry[e] = "job" ->
           <<Msg("execution_completed", "", "", 0, r.success, "job")>>
      [] entry[e] = "recovery" ->
           IF r.success
           THEN <<Msg("recovery_completed", "", "", 0, FALSE, "recovery")>>
           ELSE <<>>
      [] OTHER -> <<>>

\* what the caller of run_task does when run_task raises
\*   execute_ai_task publishes execution_completed{success: False} and
\*   re-raises (tasks.py 116-150); search_missing_money publishes an error
\*   event and returns a failure (recovery_agent.py 147-159)
AfterRaise(e) ==
    CASE entry[e] = "job" ->
           <<Msg("execution_completed", "", "", 0, FALSE, "job")>>
      [] entry[e] = "recovery" ->
           <<Msg("error", "", "", 0, FALSE, "recovery")>>
      [] OTHER -> <<>>

\* an exception raised by `await self._initialize()` at executor.py 192: the
\* call stands before run_task's try, so it leaves run_task
Propagate(e) ==
    /\ raised' = [raised EXCEPT ![e] = TRUE]
    /\ Emit(e, AfterRaise(e))
    /\ pc' = [pc EXCEPT ![e] = "done"]

\* an exception raised inside run_task's try (executor.py 255-264)
Except(e) ==
    /\ Emit(e, <<Msg("error", "", "", 0, FALSE, "executor")>>)
    /\ result' = [result EXCEPT ![e] = ExceptResult]
    /\ pc' = [pc EXCEPT ![e] = "finally"]

\* the tail of _initialize after the browser is there (executor.py 58-71)
FinishInit(e) ==
    IF ~llm /\ ~apiKey
    THEN /\ Propagate(e)
         /\ UNCHANGED <<llm, initialized>>
    ELSE /\ llm' = TRUE
         /\ initialized' = TRUE
         /\ pc' = [pc EXCEPT ![e] = "ctx"]
         /\ UNCHANGED <<raised, events>>

(***************************************************************************)
(* DigitalExecutor.run_task and its callers.                               *)
(***************************************************************************)
\* the caller's prelude and run_task up to its first suspension on
\* _initialize (tasks.py 58-91, recovery_agent.py 53-113, executor.py 181-192)
Start(e, k, s, m) ==
    /\ pc[e] = "idle"
    /\ e \in workload.calls
    /\ k \in workload.entries
    /\ m \in workload.budgets
    /\ \A d \in Execs : d < e => pc[d] # "idle"
    /\ k = "recovery" => s
    /\ entry' = [entry EXCEPT ![e] = k]
    /\ session' = [session EXCEPT ![e] = s]
    /\ max_retries' = [max_retries EXCEPT ![e] = m]
    /\ LET prelude ==
              CASE k = "job" ->
                     <<Msg("task_started", "", "started", 0, FALSE, "job")>>
                [] k = "recovery" ->
                     <<Msg("recovery_started", "", "", 0, FALSE, "recovery"),
                       Msg("step", "search", "in_progress", 0, FALSE, "recovery")>>
                [] OTHER -> <<>>
           started == <<Msg("execution_started", "", "", 0, FALSE, "executor")>>
       IN IF initialized
          THEN /\ Emit(e, prelude \o started)
               /\ pc' = [pc EXCEPT ![e] = "ctx"]
          ELSE /\ Emit(e, prelude \o started \o
                          <<Msg("initializing", "", "", 0, FALSE, "executor")>>)
               /\ pc' = [pc EXCEPT ![e] = "init"]
    /\ UNCHANGED <<lvars, bvars, ovars, workload>>
    /\ UNCHANGED <<initialized, playwright, browser, llm, pwStarts, brLaunches,
                   apiKey, contexts, attempt, context, cctx, invocations,
                   failures, last_error, attempt_log, result, raised>>

\* _initialize up to its first await (executor.py 43-54)
InitEnter(e) ==
    /\ pc[e] = "init"
    /\ IF initialized
       THEN /\ pc' = [pc EXCEPT ![e] = "ctx"]
            /\ UNCHANGED <<llm, initialized, raised, events>>
       ELSE IF playwright = 0
       THEN /\ pc' = [pc EXCEPT ![e] = "pw_start"]
            /\ UNCHANGED <<llm, initialized, raised, events>>
       ELSE IF browser = 0
       THEN /\ pc' = [pc EXCEPT ![e] = "br_launch"]
            /\ UNCHANGED <<llm, initialized, raised, events>>
       ELSE FinishInit(e)
    /\ UNCHANGED <<lvars, bvars, ovars, workload>>
    /\ UNCHANGED <<playwright, browser, pwStarts, brLaunches, apiKey, contexts,
                   entry, session, max_retries, attempt, context, cctx,
                   invocations, failures, last_error, attempt_log, result>>

\* `self.playwright = await async_playwright().start()` (executor.py 49-54)
PlaywrightStarted(e) ==
    /\ pc[e] = "pw_start"
    /\ pwStarts' = pwStarts + 1
    /\ playwright' = pwStarts + 1
    /\ IF browser = 0
       THEN /\ pc' = [pc EXCEPT ![e] = "br_launch"]
            /\ UNCHANGED <<llm, initialized, raised, events>>
       ELSE FinishInit(e)
    /\ UNCHANGED <<lvars, bvars, ovars, workload>>
    /\ UNCHANGED <<browser, brLaunches, apiKey, contexts, entry, session,
                   max_retries, attempt, context, cctx, invocations, failures, last_error, attempt_log,
                   result>>

\* async_playwright().start() raises
PlaywrightFailed(e) ==
    /\ pc[e] = "pw_start"
    /\ Propagate(e)
    /\ UNCHANGED <<lvars, bvars, ovars, workload>>
    /\ UNCHANGED <<initialized, playwright, browser, llm, pwStarts, brLaunches,
                   apiKey, contexts, entry, session, max_retries, attempt,
                   context, cctx, invocations, failures, last_error, attempt_log, result>>

\* `self.browser = await self.playwright.chromium.launch(...)` and the rest of
\* _initialize (executor.py 54-71)
BrowserLaunched(e) ==
    /\ pc[e] = "br_launch"
    /\ brLaunches' = brLaunches + 1
    /\ browser' = brLaunches + 1
    /\ FinishInit(e)
    /\ UNCHANGED <<lvars, bvars, ovars, workload>>
    /\ UNCHANGED <<playwright, pwStarts, apiKey, contexts, entry, session,
                   max_retries, attempt, context, cctx, invocations, failures, last_error, attempt_log,
                   result>>

\* chromium.launch raises
BrowserLaunchFailed(e) ==
    /\ pc[e] = "br_launch"
    /\ Propagate(e)
    /\ UNCHANGED <<lvars, bvars, ovars, workload>>
    /\ UNCHANGED <<initialized, playwright, browser, llm, pwStarts, brLaunches,
                   apiKey, contexts, entry, session, max_retries, attempt,
                   context, cctx, invocations, failures, last_error, attempt_log, result>>

\* run_task enters its try and asks for a context (executor.py 197-211;
\* _create_browser_context 85-92: self.browser is set once _initialize has
\* returned, so its own `if not self.browser` never calls _initialize again)
BeginContext(e) ==
    /\ pc[e] = "ctx"
    /\ Emit(e, <<Msg("step", "context", "in_progress", 0, FALSE, "executor")>>)
    /\ pc' = [pc EXCEPT ![e] = "new_ctx"]
    /\ UNCHANGED <<lvars, bvars, ovars, workload>>
    /\ UNCHANGED <<initialized, playwright, browser, llm, pwStarts, brLaunches,
                   apiKey, contexts, entry, session, max_retries, attempt,
                   context, cctx, invocations, failures, last_error, attempt_log, result, raised>>

\* `await self.browser.new_context(...)` returns: with session data the
\* context is still _create_browser_context's local (executor.py 89), without
\* it is run_task's (executor.py 209)
NewContext(e) ==
    /\ pc[e] = "new_ctx"
    /\ LET c == NewContextId
       IN /\ contexts' =
                IF c = Len(contexts) + 1
                THEN Append(contexts,
                            [creator |-> e, closed |-> "open", users |-> {},
                             closers |-> {}])
                ELSE contexts
          /\ IF session[e]
             THEN /\ cctx' = [cctx EXCEPT ![e] = c]
                  /\ pc' = [pc EXCEPT ![e] = "setup"]
                  /\ UNCHANGED context
             ELSE /\ context' = [context EXCEPT ![e] = c]
                  /\ pc' = [pc EXCEPT ![e] = "agent"]
                  /\ UNCHANGED cctx
    /\ UNCHANGED <<lvars, bvars, ovars, workload>>
    /\ UNCHANGED <<initialized, playwright, browser, llm, pwStarts, brLaunches,
                   apiKey, entry, session, max_retries, attempt, events,
                   invocations, failures, last_error, attempt_log, result, raised>>

\* browser.new_context raises: no context exists (executor.py 255-264)
NewContextFailed(e) ==
    /\ pc[e] = "new_ctx"
    /\ Except(e)
    /\ UNCHANGED <<lvars, bvars, ovars, workload>>
    /\ UNCHANGED <<initialized, playwright, browser, llm, pwStarts, brLaunches,
                   apiKey, contexts, entry, session, max_retries, attempt,
                   context, cctx, invocations, failures, last_error, attempt_log, raised>>

\* the rest of _create_browser_context: cookies, page, storage, headers,
\* page.close, `return context` (executor.py 94-153, 205)
SetupSession(e) ==
    /\ pc[e] = "setup"
    /\ context' = [context EXCEPT ![e] = cctx[e]]
    /\ pc' = [pc EXCEPT ![e] = "agent"]
    /\ UNCHANGED <<lvars, bvars, ovars, workload>>
    /\ UNCHANGED <<initialized, playwright, browser, llm, pwStarts, brLaunches,
                   apiKey, contexts, entry, session, max_retries, attempt, cctx,
                   events, invocations, failures, last_error, attempt_log, result, raised, workload>>

\* one of add_cookies, new_page, evaluate, set_extra_http_headers, page.close
\* raises: _create_browser_context never returns, run_task's `context` stays
\* None (executor.py 122-151, 205, 255-264)
SetupFailed(e) ==
    /\ pc[e] = "setup"
    /\ Except(e)
    /\ UNCHANGED <<lvars, bvars, ovars, workload>>
    /\ UNCHANGED <<initialized, playwright, browser, llm, pwStarts, brLaunches,
                   apiKey, contexts, entry, session, max_retries, attempt,
                   context, cctx, invocations, failures, last_error, attempt_log, raised>>

\* BrowserUseBrowser, _enhance_task_with_2fa, Agent(...) and the call of
\* _run_task_with_retry (executor.py 213-251, 311)
AgentSetup(e) ==
    /\ pc[e] = "agent"
    /\ contexts' = Use(AgentContext(e), e)
    /\ Emit(e, <<Msg("step", "context", "completed", 0, FALSE, "executor"),
                 Msg("step", "agent", "in_progress", 0, FALSE, "executor"),
                 Msg("step", "agent", "completed", 0, FALSE, "executor")>>)
    /\ attempt' = [attempt EXCEPT ![e] = 1]
    /\ pc' = [pc EXCEPT ![e] = "loop"]
    /\ UNCHANGED <<lvars, bvars, ovars, workload>>
    /\ UNCHANGED <<initialized, playwright, browser, llm, pwStarts, brLaunches,
                   apiKey, entry, session, max_retries, context, cctx,
                   invocations, failures, last_error, attempt_log, result, raised>>

\* BrowserUseBrowser(...) or Agent(...) raises (executor.py 219-241, 255-264)
AgentFailed(e) ==
    /\ pc[e] = "agent"
    /\ \E built \in BOOLEAN :
         /\ contexts' = IF built THEN Use(AgentContext(e), e) ELSE contexts
         /\ events' = [events EXCEPT ![e] = @ \o
              <<Msg("step", "context", "completed", 0, FALSE, "executor")>> \o
              (IF built
               THEN <<Msg("step", "agent", "in_progress", 0, FALSE, "executor")>>
               ELSE <<>>) \o
              <<Msg("error", "", "", 0, FALSE, "executor")>>]
    /\ result' = [result EXCEPT ![e] = ExceptResult]
    /\ pc' = [pc EXCEPT ![e] = "finally"]
    /\ UNCHANGED <<lvars, bvars, ovars, workload>>
    /\ UNCHANGED <<initialized, playwright, browser, llm, pwStarts, brLaunches,
                   apiKey, entry, session, max_retries, attempt, context, cctx,
                   invocations, failures, last_error, attempt_log, raised>>

(***************************************************************************)
(* DigitalExecutor._run_task_with_retry (executor.py 293-400).             *)
(***************************************************************************)
\* the head of the for loop: the next attempt publishes its step and calls
\* agent.run (313-322), or the loop is over and the failure dict is returned
\* (393-400)
Loop(e) ==
    /\ pc[e] = "loop"
    /\ IF InRange(attempt[e], max_retries[e])
       THEN /\ Emit(e, <<Msg("step", "execute", "in_progress", attempt[e],
                             FALSE, "executor")>>)
            /\ invocations' = [invocations EXCEPT ![e] = @ + 1]
            /\ pc' = [pc EXCEPT ![e] = "run"]
            /\ UNCHANGED result
       ELSE /\ result' = [result EXCEPT ![e] =
                          ExhaustedResult(max_retries[e], last_error[e])]
            /\ pc' = [pc EXCEPT ![e] = "finally"]
            /\ UNCHANGED <<events, invocations>>
    /\ UNCHANGED <<lvars, bvars, ovars, workload>>
    /\ UNCHANGED <<initialized, playwright, browser, llm, pwStarts, brLaunches,
                   apiKey, contexts, entry, session, max_retries, attempt,
                   context, cctx, failures, last_error, attempt_log, raised>>

\* mutant of AttemptOutcome: an artifact capture that fails raises into the
\* attempt's try
AttemptOutcomeCaptureRaises(ran, capture) ==
    IF capture = "failed" THEN "raised" ELSE ran

\* which branch of the attempt's try statement completes the attempt, given
\* how agent.run ended and what became of the capture: the capture is
\* skipped without pages (326, 368) and capture_screenshot returns None
\* instead of raising (screenshot_service.py 50-80), so it is agent.run's
\* ending alone
AttemptOutcome(ran, capture) == ran

\* the screenshot event, published only for a capture that gave its metadata
\* (330-331, 372-373)
ScreenshotEvent(step, att, capture) ==
    IF capture = "captured"
    THEN <<Msg("screenshot", step, "", att, FALSE, "executor")>>
    ELSE <<>>

\* mutant of SuccessEvents: the step is never reported as completed
SuccessEventsNoStep(att, capture) ==
    ScreenshotEvent("success", att, capture) \o
    <<Msg("execution_completed", "", "", 0, TRUE, "executor")>>

\* what the success branch publishes (324-343)
SuccessEvents(att, capture) ==
    ScreenshotEvent("success", att, capture) \o
    <<Msg("step", "execute", "completed", att, FALSE, "executor"),
      Msg("execution_completed", "", "", 0, TRUE, "executor")>>

\* the success branch of the attempt (324-351)
Succeeded(e, capture) ==
    /\ Emit(e, SuccessEvents(attempt[e], capture))
    /\ result' = [result EXCEPT ![e] = SuccessResult(attempt[e])]
    /\ pc' = [pc EXCEPT ![e] = "finally"]
    /\ UNCHANGED <<failures, last_error, attempt>>

\* the except branch of the attempt (353-391): step failed, the failure
\* screenshot, then either the retry event and the sleep, or the failed
\* execution_completed
Failed(e, capture) ==
    /\ failures' = [failures EXCEPT ![e] = @ + 1]
    /\ last_error' = [last_error EXCEPT ![e] = Caught(@, attempt[e])]
    /\ LET failed == <<Msg("step", "execute", "failed", attempt[e], FALSE,
                           "executor")>> \o
                     ScreenshotEvent("failure", attempt[e], capture)
       IN IF HasNextAttempt(attempt[e], max_retries[e])
          THEN /\ Emit(e, failed \o <<Msg("retry", "", "", attempt[e], FALSE,
                                          "executor")>>)
               /\ pc' = [pc EXCEPT ![e] = "sleep"]
               /\ UNCHANGED attempt
          ELSE /\ Emit(e, failed \o <<Msg("execution_completed", "", "", 0,
                                          FALSE, "executor")>>)
               /\ attempt' = [attempt EXCEPT ![e] = @ + 1]
               /\ pc' = [pc EXCEPT ![e] = "loop"]
    /\ UNCHANGED result

\* the attempt is over: agent.run ended as `ran` and the capture as `capture`
AttemptOver(e, ran, capture) ==
    /\ pc[e] = "run"
    /\ capture \in workload.captures
    /\ contexts' = Use(AgentContext(e), e)
    /\ attempt_log' = [attempt_log EXCEPT ![e] =
                         Append(@, [ran |-> ran, capture |-> capture])]
    /\ IF AttemptOutcome(ran, capture) = "returned"
       THEN Succeeded(e, capture)
       ELSE Failed(e, capture)
    /\ UNCHANGED <<lvars, bvars, ovars, workload>>
    /\ UNCHANGED <<initialized, playwright, browser, llm, pwStarts, brLaunches,
                   apiKey, entry, session, max_retries, context, cctx,
                   invocations, raised>>

\* agent.run returns (322-351)
RunOk(e, capture) == AttemptOver(e, "returned", capture)

\* agent.run raises (322, 353-391)
RunFail(e, capture) == AttemptOver(e, "raised", capture)

\* `await asyncio.sleep(2)` is over (382)
Sleep(e) ==
    /\ pc[e] = "sleep"
    /\ attempt' = [attempt EXCEPT ![e] = @ + 1]
    /\ pc' = [pc EXCEPT ![e] = "loop"]
    /\ UNCHANGED <<lvars, bvars, ovars, workload>>
    /\ UNCHANGED <<initialized, playwright, browser, llm, pwStarts, brLaunches,
                   apiKey, contexts, entry, session, max_retries, context, cctx,
                   events, invocations, failures, last_error, attempt_log, result, raised, workload>>

\* run_task's finally (executor.py 266-272) and the return to the caller.
\* closed: context.close() returned; otherwise it raised and was swallowed
Finally(e, closed) ==
    /\ pc[e] = "finally"
    /\ LET c == ContextToClose(e)
       IN contexts' =
            IF c # 0
            THEN [contexts EXCEPT ![c].closed =
                                    IF closed THEN "closed" ELSE "close_failed",
                                  ![c].closers = @ \cup {e}]
            ELSE contexts
    /\ Emit(e, AfterReturn(e, result[e]))
    /\ pc' = [pc EXCEPT ![e] = "done"]
    /\ UNCHANGED <<lvars, bvars, ovars, workload>>
    /\ UNCHANGED <<initialized, playwright, browser, llm, pwStarts, brLaunches,
                   apiKey, entry, session, max_retries, attempt, context, cctx,
                   invocations, failures, last_error, attempt_log, result, raised>>

(***************************************************************************)
(* The ledger, the will store, the unseal service.                         *)
(***************************************************************************)
\* the CharonSwitch contract records a status change: one StatusChanged
\* event in a new block (ABI at blockchain_listener.py 31-57).  The contract
\* is not part of the repository; the ABI admits any pair of statuses
StatusChange(u, new) ==
    /\ Len(logs) < MaxEvents
    /\ new # status[u]
    /\ block_number' = block_number + 1
    /\ logs' = Append(logs, [block |-> block_number + 1, user |-> u,
                             oldStatus |-> status[u], newStatus |-> new])
    /\ status' = [status EXCEPT ![u] = new]
    /\ UNCHANGED <<evars, bvars, ovars>>
    /\ UNCHANGED <<wills_db, guardians, is_listening, stop_called, lpc, polls,
                   tasks, runs, sends, notices, unseals, fins, handled, agent_tasks>>

\* mutant of WillsOf: the wills are not filtered by their owner
WillsOfAnyone(db, u) == [i \in DOMAIN db |-> db[i].id]

\* DigitalWillService.get_wills_by_user (database.py 50-66): the ids of the
\* wills of `u`, in store order
RECURSIVE WillsOf(_, _)
WillsOf(db, u) ==
    IF db = <<>> THEN <<>>
    ELSE (IF Head(db).userAddress = u THEN <<Head(db).id>> ELSE <<>>)
         \o WillsOf(Tail(db), u)

\* LitDecryptionService._simulate_decryption (lit_decrypt.py 137-151): the
\* placeholder plaintext, whatever the ciphertext, the hash and the status
SimulateDecryption(u) == TRUE

\* LitDecryptionService.decrypt_credential (lit_decrypt.py 101-135): TRUE when
\* a plaintext is returned, FALSE for None
DecryptCredential(u) == SimulateDecryption(u)

\* BlockchainListener._get_guardian_emails (blockchain_listener.py 332-357):
\* the environment holds GUARDIAN_EMAIL_<address> for guardians 1 and 3
HasEmail(g) == g # 2

\* the events get_logs returns for [from_block, to_block]
\* (blockchain_listener.py 260-266)
EventsInWindow(cur) ==
    LET from_block == IF cur - Lookback > 0 THEN cur - Lookback ELSE 0
    IN {i \in 1..Len(logs) : logs[i].block >= from_block /\ logs[i].block <= cur}

(***************************************************************************)
(* BlockchainListener.                                                     *)
(***************************************************************************)
\* a handler task: the event it was created for, where it stands, the wills
\* it fetched, the index of the will it is processing and the indices of the
\* wills whose run_task call raised
Task(ev, at, ws, wi, bad) ==
    [ev |-> ev, pc |-> at, wills |-> ws, wi |-> wi, bad |-> bad]

\* what a finished handler task did: the user-info query answered, the
\* guardians were notified, the wills were fetched, how many wills were
\* processed, for which of them run_task raised; cycle is the polling cycle
\* during which it finished
HandlerDone(ev, info, notified, fetched, processed, bad) ==
    [ev |-> ev, info |-> info, notified |-> notified, fetched |-> fetched,
     processed |-> processed, bad |-> bad, cycle |-> polls]

\* the sentences of a task text that tell the agent how to handle 2FA
TwoFaSentences ==
    {"If you encounter a 2FA/TOTP screen, use the TOTP secret to generate the code.",
     "IMPORTANT - 2FA HANDLING", "Use the following TOTP code",
     "If the code expires, generate a new one using the TOTP secret"}

\* task_description of _process_will_entry (blockchain_listener.py 198-206),
\* sentence by sentence: the same text for every will
TaskDescription(w) ==
    <<"Execute the following instruction on websiteUrl", "instruction",
      "You have been provided with login credentials (username and password).",
      "If you encounter a 2FA/TOTP screen, use the TOTP secret to generate the code.",
      "Complete the task as specified in the instruction.">>

\* session_data of _process_will_entry (blockchain_listener.py 182-195)
SessionData(w) ==
    [url |-> TRUE, localStorage |-> TRUE, totpSecret |-> w.totpSecret]

\* DigitalExecutor._enhance_task_with_2fa (executor.py 444-477)
EnhanceTaskWith2fa(task_description, session_data) ==
    IF session_data.totpSecret
    THEN task_description \o
           <<"IMPORTANT - 2FA HANDLING", "Use the following TOTP code",
             "If the code expires, generate a new one using the TOTP secret">>
    ELSE task_description

\* f with one more at <<ev, ws[i]>> for every i of idx
Bump(f, ev, ws, idx) ==
    [p \in DOMAIN f |->
       IF p[1] = ev
       THEN f[p] + Cardinality({i \in idx : ws[i] = p[2]})
       ELSE f[p]]

\* _process_will_entry for the wills ws[lo..hi], each up to its suspension
\* inside executor.run_task (blockchain_listener.py 156-215): unseal, and
\* with a plaintext build the session data and the task text and start the
\* run (whose Agent is given the enhanced text, executor.py 227-236)
ProcessWills(ev, u, ws, lo, hi) ==
    LET plain == DecryptCredential(u)
    IN /\ unseals' = unseals \cup
                       {[user |-> u, status |-> status[u], plaintext |-> plain]}
       /\ runs' = IF plain THEN Bump(runs, ev, ws, lo..hi) ELSE runs
       /\ agent_tasks' =
            IF plain
            THEN agent_tasks \cup
                   {[will |-> ws[i], totp |-> wills_db[ws[i]].totpSecret,
                     text |-> EnhanceTaskWith2fa(
                                TaskDescription(wills_db[ws[i]]),
                                SessionData(wills_db[ws[i]]))] : i \in lo..hi}
            ELSE agent_tasks

\* mutant of StoreAfter: the pipeline clears the TOTP secret of a will it
\* has processed
StoreAfterConsume(db, processed) ==
    [i \in DOMAIN db |->
       IF db[i].id \in processed
       THEN [db[i] EXCEPT !.totpSecret = FALSE]
       ELSE db[i]]

\* the store after _process_will_entry was entered for the wills of
\* `processed`: the handler and _process_will_entry only read the records
\* get_wills_by_user returned (blockchain_listener.py 141-151, 164-209) and
\* build session_data from new dicts (182-195)
StoreAfter(db, processed) == db

\* mutant of FirstBatch: the handler starts every will before it waits
FirstBatchAll(ws) == Len(ws)

\* `for will in wills: await self._process_will_entry(...)` (blockchain_
\* listener.py 150-151): the handler is suspended inside the first will's
\* run_task before it touches the second
FirstBatch(ws) == 1

\* mutant of ContinueAfter: an exception of run_task ends the for loop
ContinueAfterOnlyReturn(outcome) == outcome = "returned"

\* _process_will_entry swallows what run_task raises (blockchain_listener.py
\* 223-224), so the for loop goes on to the next will whatever the outcome
ContinueAfter(outcome) == TRUE

\* mutant of ListenerAfter: a failing handler ends listen_for_events
ListenerAfterCrash(l, failed) == IF failed THEN "returned" ELSE l

\* where listen_for_events stands after a step of a handler task: where it
\* stood.  The handler runs as a task of its own (asyncio.create_task,
\* blockchain_listener.py 274-276) and catches what it raises (125-127,
\* 153-154, 223-224)
ListenerAfter(l, failed) == l

\* `if last_seen: verification_timestamp = datetime.fromtimestamp(...)`
\* (blockchain_listener.py 297-301)
VerificationTimestamp(last_seen) ==
    IF last_seen # 0 THEN last_seen ELSE NoTimestamp

\* grace_period_end of send_guardian_notification (notification_service.py
\* 119-123)
GracePeriodEnd(verification_timestamp, now, grace_period_hours) ==
    IF verification_timestamp # NoTimestamp
    THEN verification_timestamp + grace_period_hours
    ELSE now + grace_period_hours

\* the slots of guardian tuple gs that pass both tests of _notify_guardians:
\* not empty, not the zero address, and with an email (blockchain_listener.py
\* 310-313)
SlotsToSend(gs) ==
    {i \in DOMAIN gs : gs[i] # ZeroAddress /\ HasEmail(gs[i])}

\* mutant of Attempted: the loop ends at the first send that fails
AttemptedUntilFailure(gs, failing) ==
    {i \in SlotsToSend(gs) : \A j \in failing : j >= i}

\* the slots for which send_guardian_notification is called when the sends
\* to the slots of `failing` fail: the service reports a failed send by
\* returning False (notification_service.py 70-72, 92-94, 149) and the loop
\* only logs it (blockchain_listener.py 322-325)
Attempted(gs, failing) == SlotsToSend(gs)

\* one send_guardian_notification call
Notice(ev, slot, g, last_seen, deadline, ok) ==
    [ev |-> ev, slot |-> slot, guardian |-> g, lastSeen |-> last_seen,
     deadline |-> deadline, ok |-> ok, cycle |-> polls]

\* number of slots of guardian tuple gs that hold g
Slots(gs, g) == Cardinality({i \in DOMAIN gs : gs[i] = g})

\* listen_for_events up to its loop (blockchain_listener.py 226-252).
\*   "no_web3"  _initialize_web3 returns False, or there is no contract:
\*              the listener was never started ("unconfigured")
\*   "no_block" the first read of block_number raises: `return` (243-245)
ListenStart(outcome) ==
    /\ lpc = "idle"
    /\ IF outcome = "no_web3"
       THEN /\ lpc' = "unconfigured"
            /\ UNCHANGED is_listening
       ELSE /\ is_listening' = TRUE
            /\ lpc' = IF outcome = "no_block" THEN "returned" ELSE "loop"
    /\ UNCHANGED <<evars, bvars, ovars>>
    /\ UNCHANGED <<block_number, logs, status, wills_db, guardians,
                   stop_called, polls, tasks, runs, sends, notices, unseals, fins,
                   handled, agent_tasks>>

\* one cycle of the while loop (blockchain_listener.py 254-283): the loop
\* test, the two ledger queries, one task per event of the window, then a
\* sleep; ok = FALSE when a ledger query raises
Poll(ok) ==
    /\ lpc = "loop"
    /\ IF ~is_listening
       THEN /\ lpc' = "returned"
            /\ UNCHANGED <<polls, tasks>>
       ELSE /\ polls < MaxPolls
            /\ polls' = polls + 1
            /\ lpc' = "sleep"
            /\ tasks' =
                 IF ok
                 THEN tasks (+) [t \in {Task(i, "created", <<>>, 0, {}) :
                                          i \in EventsInWindow(block_number)}
                                   |-> 1]
                 ELSE tasks
    /\ UNCHANGED <<evars, bvars, ovars>>
    /\ UNCHANGED <<block_number, logs, status, wills_db, guardians,
                   is_listening, stop_called, runs, sends, notices, unseals, fins,
                   handled, agent_tasks>>

\* asyncio.sleep(10) or asyncio.sleep(30) is over (279, 283)
Wake ==
    /\ lpc = "sleep"
    /\ lpc' = "loop"
    /\ UNCHANGED <<evars, bvars, ovars>>
    /\ UNCHANGED <<block_number, logs, status, wills_db, guardians,
                   is_listening, stop_called, polls, tasks, runs, sends, notices, unseals,
                   fins, handled, agent_tasks>>

\* stop_listening (blockchain_listener.py 359-362), called by shutdown_event
\* (main.py 510-514)
StopListening ==
    /\ ~stop_called
    /\ stop_called' = TRUE
    /\ is_listening' = FALSE
    /\ UNCHANGED <<evars, bvars, ovars>>
    /\ UNCHANGED <<block_number, logs, status, wills_db, guardians, lpc, polls,
                   tasks, runs, sends, notices, unseals, fins, handled, agent_tasks>>

\* _handle_status_changed from its start to its first suspension
\* (blockchain_listener.py 106-154, _notify_guardians 285-330).
\*   info = FALSE: getUserInfo raises and the handler returns
HandlerStart(t, info) ==
    /\ BagIn(t, tasks)
    /\ t.pc = "created"
    /\ lpc' = ListenerAfter(lpc, ~info)
    /\ LET ev == logs[t.ev]
           ws == WillsOf(wills_db, ev.user)
           rest == tasks (-) SetToBag({t})
           k == FirstBatch(ws)
       IN IF ~info
          THEN /\ tasks' = rest
               /\ handled' = handled \cup
                    {HandlerDone(t.ev, FALSE, FALSE, FALSE, 0, {})}
               /\ UNCHANGED <<runs, sends, notices, unseals, fins, agent_tasks>>
          ELSE IF ev.newStatus = USER_STATUS_PENDING_VERIFICATION
          THEN /\ \E ls \in LastSeenValues, now \in Clock,
                       failing \in SUBSET SlotsToSend(guardians[ev.user]) :
                    LET gs == guardians[ev.user]
                        att == Attempted(gs, failing)
                        end == GracePeriodEnd(VerificationTimestamp(ls), now,
                                              GRACE_PERIOD_HOURS)
                    IN /\ sends' =
                            [p \in DOMAIN sends |->
                               IF p[1] = t.ev
                               THEN sends[p] +
                                    Cardinality({i \in att : gs[i] = p[2]})
                               ELSE sends[p]]
                       /\ notices' = notices \cup
                            {Notice(t.ev, i, gs[i], ls, end, i \notin failing) :
                               i \in att}
               /\ tasks' = rest
               /\ handled' = handled \cup
                    {HandlerDone(t.ev, TRUE, TRUE, FALSE, 0, {})}
               /\ UNCHANGED <<runs, unseals, fins, agent_tasks>>
          ELSE IF ev.newStatus = USER_STATUS_DECEASED /\ ws # <<>>
          THEN /\ ProcessWills(t.ev, ev.user, ws, 1, k)
               /\ IF DecryptCredential(ev.user)
                  THEN /\ tasks' = rest (+) SetToBag({Task(t.ev, "running", ws,
                                                           k, {})})
                       /\ UNCHANGED fins
                  ELSE /\ tasks' = rest (+) SetToBag({Task(t.ev, "next", ws,
                                                           k, {})})
                       /\ fins' = Bump(fins, t.ev, ws, 1..k)
               /\ UNCHANGED <<sends, notices, handled>>
          ELSE /\ tasks' = rest
               /\ handled' = handled \cup
                    {HandlerDone(t.ev, TRUE, FALSE,
                                 ev.newStatus = USER_STATUS_DECEASED, 0, {})}
               /\ UNCHANGED <<runs, sends, notices, unseals, fins, agent_tasks>>
    /\ LET ev == logs[t.ev]
           ws == WillsOf(wills_db, ev.user)
       IN wills_db' =
            StoreAfter(wills_db,
                       IF info /\ ev.newStatus = USER_STATUS_DECEASED
                       THEN {ws[i] : i \in 1..(IF ws = <<>> THEN 0
                                                ELSE FirstBatch(ws))}
                       ELSE {})
    /\ UNCHANGED <<evars, bvars, ovars>>
    /\ UNCHANGED <<block_number, logs, status, guardians, is_listening,
                   stop_called, polls>>

\* executor.run_task comes back to _process_will_entry, with an outcome
\* ("returned") or with an exception that _process_will_entry swallows
\* ("raised") (blockchain_listener.py 212-224); the for loop of
\* _handle_status_changed goes on to the next will (150-151), and after the
\* last will the handler is over
WillDone(t, outcome) ==
    /\ BagIn(t, tasks)
    /\ t.pc \in {"running", "next"}
    /\ t.pc = "next" => outcome = "returned"
    /\ lpc' = ListenerAfter(lpc, outcome = "raised")
    /\ LET ev == logs[t.ev]
           rest == tasks (-) SetToBag({t})
           bad == IF outcome = "raised" THEN t.bad \cup {t.wi} ELSE t.bad
           back == IF t.pc = "running"
                   THEN Bump(fins, t.ev, t.wills, {t.wi})
                   ELSE fins
       IN IF t.wi < Len(t.wills) /\ ContinueAfter(outcome)
          THEN /\ ProcessWills(t.ev, ev.user, t.wills, t.wi + 1, t.wi + 1)
               /\ IF DecryptCredential(ev.user)
                  THEN /\ tasks' = rest (+) SetToBag({Task(t.ev, "running",
                                                  t.wills, t.wi + 1, bad)})
                       /\ fins' = back
                  ELSE /\ tasks' = rest (+) SetToBag({Task(t.ev, "next",
                                                  t.wills, t.wi + 1, bad)})
                       /\ fins' = Bump(back, t.ev, t.wills, {t.wi + 1})
               /\ UNCHANGED handled
          ELSE /\ tasks' = rest
               /\ fins' = back
               /\ handled' = handled \cup
                    {HandlerDone(t.ev, TRUE, FALSE, TRUE, t.wi, bad)}
               /\ UNCHANGED <<runs, unseals, agent_tasks>>
    /\ wills_db' =
         StoreAfter(wills_db,
                    IF t.wi < Len(t.wills) /\ ContinueAfter(outcome)
                    THEN {t.wills[t.wi + 1]}
                    ELSE {})
    /\ UNCHANGED <<evars, bvars, ovars>>
    /\ UNCHANGED <<block_number, logs, status, guardians, is_listening,
                   stop_called, polls, sends, notices>>

(***************************************************************************)
(* WebSocketManager (services/websocket_manager.py) for one execution_id,  *)
(* the endpoint that serves a websocket (main.py 238-261) and the          *)
(* publisher, which awaits one send_to_execution call after the other      *)
(* (_emit_event, executor.py 479-497).  Message m is the m-th event the    *)
(* publisher emits for the execution_id.  send_to_execution is suspended   *)
(* at each `await connection.send_json(message)`; the endpoints run in     *)
(* between.                                                                *)
(***************************************************************************)
\* no for loop is running
NoIter ==
    [cur |-> 0, visited |-> {}, size |-> 0, stale |-> FALSE, changed |-> FALSE,
     targets |-> {}, steps |-> 0]

\* no send_to_execution call is over yet
NoSend == [m |-> 0, targets |-> {}, failed |-> {}, raised |-> FALSE]

\* the send_to_execution calls that have returned or raised
Returned == IF spc = "sending" THEN msg - 1 ELSE msg

\* mutant of OnConnect: the manager keeps the messages and replays them
OnConnectReplay(returned) == [i \in 1..returned |-> i]

\* what connect sends the new websocket: nothing, it only registers it
\* (websocket_manager.py 21-29)
OnConnect(returned) == <<>>

\* the for loop's iterator after the set it walks was changed while the loop
\* is suspended; emptied, the set was deleted from the dict (line 40) and a
\* later connect makes a new one (line 28): the iterator keeps the old one
Touch(i, emptied) ==
    [i EXCEPT !.changed = TRUE, !.stale = @ \/ emptied]

\* len() of the set the iterator walks
IterLen ==
    IF it.stale THEN 0 ELSE Cardinality(execution_connections)

\* what the iterator may yield next.  CPython's set iterator only checks
\* that the size is the one it started with; after a change that keeps the
\* size it walks the changed table, where it can miss members, meet new
\* ones, and after a resize of the table meet a member again
NextOf ==
    IF it.changed
    THEN (IF it.steps < MaxYields THEN execution_connections ELSE {})
    ELSE execution_connections \ it.visited

\* the iterator may be exhausted
CanStop == it.changed \/ execution_connections \ it.visited = {}

\* no broadcast call is under way; n calls were made
NoBroadcast(n) ==
    [state |-> "idle", cur |-> 0, visited |-> {}, size |-> 0,
     changed |-> FALSE, steps |-> 0, gone |-> {}, calls |-> n]

\* the broadcast call after active_connections went from `before` to
\* `after` while its for loop is suspended
BTouch(b, before, after) ==
    IF b.state = "sending" /\ before # after
    THEN [b EXCEPT !.changed = TRUE]
    ELSE b

\* what the iterator of broadcast may yield next (see NextOf)
BNextOf ==
    IF bcast.changed
    THEN (IF bcast.steps < MaxYields THEN active_connections ELSE {})
    ELSE active_connections \ bcast.visited

\* the iterator of broadcast may be exhausted
BCanStop == bcast.changed \/ active_connections \ bcast.visited = {}

\* websocket_execution accepts the websocket and connect registers it
\* (main.py 246, websocket_manager.py 21-29)
Connect(s) ==
    /\ sub[s] = "new"
    /\ sub' = [sub EXCEPT ![s] = "open"]
    /\ execution_connections' = execution_connections \cup {s}
    /\ received' = [received EXCEPT ![s] = OnConnect(Returned)]
    /\ joined' = [joined EXCEPT ![s] = [started |-> msg, returned |-> Returned]]
    /\ it' = IF spc = "sending" THEN Touch(it, FALSE) ELSE it
    /\ active_connections' = active_connections \cup {s}
    /\ bcast' = BTouch(bcast, active_connections, active_connections \cup {s})
    /\ UNCHANGED <<broken, msg, spc, disconnected, dropped, last>>
    /\ UNCHANGED <<evars, lvars, ovars>>

\* the client is gone: websocket_execution gets WebSocketDisconnect and
\* calls disconnect (main.py 257-261, websocket_manager.py 33-42)
Leave(s) ==
    /\ sub[s] = "open"
    /\ sub' = [sub EXCEPT ![s] = "closed"]
    /\ execution_connections' = execution_connections \ {s}
    /\ it' = IF spc = "sending" /\ s \in execution_connections
             THEN Touch(it, execution_connections = {s})
             ELSE it
    /\ active_connections' = active_connections \ {s}
    /\ bcast' = BTouch(bcast, active_connections, active_connections \ {s})
    /\ UNCHANGED <<received, broken, joined, msg, spc, disconnected, dropped,
                   last>>
    /\ UNCHANGED <<evars, lvars, ovars>>

\* send_to_execution up to its first send_json (websocket_manager.py 66-74):
\* without the key it returns at once; otherwise the for loop starts with
\* some member `first` of the set
Publish(first) ==
    /\ spc = "idle"
    /\ msg < MaxMsgs
    /\ msg' = msg + 1
    /\ IF execution_connections = {}
       THEN /\ first = 0
            /\ dropped' = dropped \cup {msg + 1}
            /\ last' = [m |-> msg + 1, targets |-> {}, failed |-> {},
                        raised |-> FALSE]
            /\ UNCHANGED <<spc, it, disconnected>>
       ELSE /\ first \in execution_connections
            /\ spc' = "sending"
            /\ it' = [cur |-> first, visited |-> {first},
                      size |-> Cardinality(execution_connections),
                      stale |-> FALSE, changed |-> FALSE,
                      targets |-> execution_connections, steps |-> 1]
            /\ disconnected' = {}
            /\ UNCHANGED <<dropped, last>>
    /\ UNCHANGED <<execution_connections, sub, received, broken, joined,
                   active_connections, bcast>>
    /\ UNCHANGED <<evars, lvars, ovars>>

\* `await connection.send_json(message)` is over and the for loop takes its
\* next step (websocket_manager.py 72-81).  ok: the message was sent;
\* otherwise send_json raised and the connection is noted in `disconnected`.
\* nxt: the member the iterator yields next, 0 when the loop is over
Delivered(ok, nxt) ==
    /\ spc = "sending"
    /\ sub[it.cur] = "closed" => ~ok
    /\ LET gone == IF ok THEN disconnected ELSE disconnected \cup {it.cur}
       IN /\ received' = IF ok
                         THEN [received EXCEPT ![it.cur] = Append(@, msg)]
                         ELSE received
          /\ broken' = IF ok THEN broken ELSE broken \cup {it.cur}
          /\ IF IterLen # it.size
             THEN \* RuntimeError: Set changed size during iteration.  It
                  \* leaves send_to_execution: the for loop stands in no try
                  /\ nxt = 0
                  /\ spc' = "idle"
                  /\ last' = [m |-> msg, targets |-> it.targets,
                              failed |-> gone, raised |-> TRUE]
                  /\ it' = NoIter
                  /\ disconnected' = {}
                  /\ UNCHANGED <<execution_connections, active_connections,
                                 bcast>>
             ELSE IF nxt \in NextOf
             THEN /\ it' = [it EXCEPT !.cur = nxt, !.visited = @ \cup {nxt},
                                      !.steps = @ + 1]
                  /\ disconnected' = gone
                  /\ UNCHANGED <<spc, last, execution_connections,
                                 active_connections, bcast>>
             ELSE \* the loop is over: `for conn in disconnected:
                  \* self.disconnect(conn, execution_id)`
                  /\ nxt = 0
                  /\ CanStop
                  /\ execution_connections' = execution_connections \ gone
                  /\ active_connections' = active_connections \ gone
                  /\ bcast' = BTouch(bcast, active_connections,
                                     active_connections \ gone)
                  /\ spc' = "idle"
                  /\ last' = [m |-> msg, targets |-> it.targets,
                              failed |-> gone, raised |-> FALSE]
                  /\ it' = NoIter
                  /\ disconnected' = {}
    /\ UNCHANGED <<sub, joined, msg, dropped>>
    /\ UNCHANGED <<evars, lvars, ovars>>

\* send_personal_message(message, websocket) (websocket_manager.py 44-50):
\* when send_json raises, disconnect(websocket) is called without an
\* execution_id, so only active_connections loses the websocket
SendPersonalMessage(s, ok) ==
    /\ sub[s] # "open" => ~ok
    /\ broken' = IF ok THEN broken ELSE broken \cup {s}
    /\ active_connections' = IF ok THEN active_connections
                             ELSE active_connections \ {s}
    /\ bcast' = IF ok THEN bcast
                ELSE BTouch(bcast, active_connections, active_connections \ {s})
    /\ UNCHANGED <<execution_connections, sub, received, joined, msg, spc, it,
                   disconnected, dropped, last>>
    /\ UNCHANGED <<evars, lvars, ovars>>

\* broadcast up to its first send_json (websocket_manager.py 52-56): the for
\* loop starts with some member `first` of active_connections, or is over
\* at once when there is none
Broadcast(first) ==
    /\ bcast.state = "idle"
    /\ bcast.calls < MaxBroadcasts
    /\ IF active_connections = {}
       THEN /\ first = 0
            /\ bcast' = NoBroadcast(bcast.calls + 1)
       ELSE /\ first \in active_connections
            /\ bcast' = [state |-> "sending", cur |-> first,
                         visited |-> {first},
                         size |-> Cardinality(active_connections),
                         changed |-> FALSE, steps |-> 1, gone |-> {},
                         calls |-> bcast.calls + 1]
    /\ UNCHANGED <<execution_connections, sub, received, broken, joined, msg,
                   spc, it, disconnected, dropped, last, active_connections>>
    /\ UNCHANGED <<evars, lvars, ovars>>

\* `await connection.send_json(message)` of broadcast is over and its for
\* loop takes the next step (websocket_manager.py 56-64); at the end
\* disconnect(conn) is called without an execution_id for every connection
\* the delivery failed for
BroadcastDelivered(ok, nxt) ==
    /\ bcast.state = "sending"
    /\ sub[bcast.cur] # "open" => ~ok
    /\ LET gone == IF ok THEN bcast.gone ELSE bcast.gone \cup {bcast.cur}
       IN /\ broken' = IF ok THEN broken ELSE broken \cup {bcast.cur}
          /\ IF Cardinality(active_connections) # bcast.size
             THEN \* RuntimeError: Set changed size during iteration
                  /\ nxt = 0
                  /\ bcast' = NoBroadcast(bcast.calls)
                  /\ UNCHANGED active_connections
             ELSE IF nxt \in BNextOf
             THEN /\ bcast' = [bcast EXCEPT !.cur = nxt,
                                            !.visited = @ \cup {nxt},
                                            !.steps = @ + 1, !.gone = gone]
                  /\ UNCHANGED active_connections
             ELSE /\ nxt = 0
                  /\ BCanStop
                  /\ active_connections' = active_connections \ gone
                  /\ bcast' = NoBroadcast(bcast.calls)
    /\ UNCHANGED <<execution_connections, sub, received, joined, msg, spc, it,
                   disconnected, dropped, last>>
    /\ UNCHANGED <<evars, lvars, ovars>>

(***************************************************************************)
(* TotpHandler (services/totp_handler.py) over pyotp.TOTP.  The HOTP value  *)
(* of a seed and a counter is HMAC-SHA1 truncated to six digits (RFC 4226): *)
(* the model takes it as some function into the codes, so that the values   *)
(* of two counters may coincide, as six-digit values do.                    *)
(***************************************************************************)
\* pyotp.TOTP.timecode: the number of whole intervals since the epoch
TimeCode(t) == t \div TimeStep

\* TotpHandler.generate_totp at time t (totp_handler.py 24-30): totp.now(),
\* or None when pyotp raises on the seed
GenerateTotp(secret, t) ==
    IF secret \in ValidSeeds THEN hotp[<<secret, TimeCode(t)>>] ELSE None

\* mutant of VerifyTotp: valid_window is left at 0
VerifyTotpNoWindow(secret, code, t) ==
    /\ secret \in ValidSeeds
    /\ code = hotp[<<secret, TimeCode(t)>>]

\* TotpHandler.verify_totp at time t (totp_handler.py 44-49):
\* totp.verify(code, valid_window=1) compares the code with the values of
\* the counters timecode - 1 .. timecode + 1; False when pyotp raises
VerifyTotp(secret, code, t) ==
    /\ secret \in ValidSeeds
    /\ \E i \in (0 - ValidWindow)..ValidWindow :
         /\ TimeCode(t) + i \in Counters
         /\ code = hotp[<<secret, TimeCode(t) + i>>]

\* how the f-string renders current_code (executor.py 471): a code as its
\* digits, None as the word None
FormatCode(current_code) ==
    IF current_code = None THEN "None" ELSE current_code

\* DigitalExecutor._enhance_task_with_2fa at time t (executor.py 444-477):
\* the 2FA block is appended whenever the session carries a seed, with
\* whatever generate_totp returned
Enhanced2fa(secret, t) ==
    IF secret = NoSeed
    THEN [seed |-> secret, enhanced |-> FALSE, code_text |-> "", at |-> t]
    ELSE [seed |-> secret, enhanced |-> TRUE,
          code_text |-> FormatCode(GenerateTotp(secret, t)), at |-> t]

\* run_task builds the instruction text for the agent (executor.py 227-229)
BuildInstruction(secret) ==
    /\ instruction' = Enhanced2fa(secret, clock)
    /\ UNCHANGED <<hotp, clock, verdict>>
    /\ UNCHANGED <<evars, lvars, bvars, kvars, dvars>>

\* time passes
Tick(d) ==
    /\ clock + d <= MaxTime
    /\ clock' = clock + d
    /\ UNCHANGED <<hotp, verdict, instruction>>
    /\ UNCHANGED <<evars, lvars, bvars, kvars, dvars>>

\* a code generated for `secret` by generate_totp on a device whose clock
\* shows g is handed to verify_totp
Verify(secret, g) ==
    /\ LET code == GenerateTotp(secret, g)
       IN verdict' = [seed |-> secret, code |-> code, genAt |-> g, at |-> clock,
                      ok |-> VerifyTotp(secret, code, clock)]
    /\ UNCHANGED <<hotp, clock, instruction>>
    /\ UNCHANGED <<evars, lvars, bvars, kvars, dvars>>

(***************************************************************************)
(* The task mapping of services/tasks.py, execute_ai_task as Celery runs    *)
(* it, and the status endpoint of main.py.  Celery stores SUCCESS with the  *)
(* value a task returns and FAILURE when it raises; it answers PENDING for  *)
(* a task id it has no record of.                                           *)
(***************************************************************************)
\* get_task_id_by_execution_id (tasks.py 30-32): dict.get
GetTaskIdByExecutionId(mapping, execution_id) ==
    IF execution_id \in DOMAIN mapping THEN mapping[execution_id] ELSE None

\* mutant of MappingAfterSet: the dict is rebuilt with the one new entry
MappingAfterSetAlone(mapping, execution_id, task_id) ==
    [x \in {execution_id} |-> task_id]

\* set_task_id_mapping (tasks.py 35-37): _execution_to_task[e] = t
MappingAfterSet(mapping, execution_id, task_id) ==
    [x \in DOMAIN mapping \cup {execution_id} |->
       IF x = execution_id THEN task_id ELSE mapping[x]]

\* a task id Celery has no record of
NoRecord == [state |-> "PENDING", execution_id |-> 0, result |-> "none"]

\* the state Celery stores when execute_ai_task returns its result
\* (tasks.py 110-111), whatever the result says
StateAfterReturn(success) == "SUCCESS"

\* the status of a Celery state (main.py 208-218)
StatusOf(celery_state) ==
    CASE celery_state = "PENDING" -> "pending"
      [] celery_state = "STARTED" -> "processing"
      [] celery_state = "SUCCESS" -> "completed"
      [] celery_state = "FAILURE" -> "failed"
      [] OTHER -> "processing"

\* no request to the status endpoint yet
NoResponse ==
    [execution_id |-> 0, code |-> 0, task_id |-> None, status |-> "",
     result |-> "none"]

\* set_task_id_mapping(e, t), called directly (test_background_jobs.py 33)
SetTaskIdMapping(e, t) ==
    /\ set_count[e] < MaxSets
    /\ execution_to_task' = MappingAfterSet(execution_to_task, e, t)
    /\ last_set' = [last_set EXCEPT ![e] = t]
    /\ set_count' = [set_count EXCEPT ![e] = @ + 1]
    /\ UNCHANGED <<celery, response, run_outcome>>
    /\ UNCHANGED <<evars, lvars, bvars, tvars, dvars>>

\* POST /execute (main.py 150-160): a fresh execution id, the task queued
\* in Celery, the mapping stored
ExecuteBackground(e, t) ==
    /\ set_count[e] = 0
    /\ celery[t] = NoRecord
    /\ celery' = [celery EXCEPT ![t] = [state |-> "PENDING", execution_id |-> e,
                                        result |-> "none"]]
    /\ execution_to_task' = MappingAfterSet(execution_to_task, e, t)
    /\ last_set' = [last_set EXCEPT ![e] = t]
    /\ set_count' = [set_count EXCEPT ![e] = @ + 1]
    /\ UNCHANGED <<response, run_outcome>>
    /\ UNCHANGED <<evars, lvars, bvars, tvars, dvars>>

\* a worker picks the task up; Celery records STARTED when it is configured
\* to track it
WorkerStart(t) ==
    /\ celery[t].state = "PENDING"
    /\ celery[t].execution_id # 0
    /\ celery' = [celery EXCEPT ![t].state = "STARTED"]
    /\ UNCHANGED <<execution_to_task, response, last_set, set_count, run_outcome>>
    /\ UNCHANGED <<evars, lvars, bvars, tvars, dvars>>

\* execute_ai_task returns the outcome of run_task (tasks.py 85-111)
WorkerReturn(t, success) ==
    /\ celery[t].state \in {"PENDING", "STARTED"}
    /\ celery[t].execution_id # 0
    /\ celery' = [celery EXCEPT ![t].state = StateAfterReturn(success),
                                ![t].result = IF success THEN "success"
                                              ELSE "failure"]
    /\ run_outcome' = [run_outcome EXCEPT ![celery[t].execution_id] =
                     IF success THEN "success" ELSE "failure"]
    /\ UNCHANGED <<execution_to_task, response, last_set, set_count>>
    /\ UNCHANGED <<evars, lvars, bvars, tvars, dvars>>

\* execute_ai_task raises (tasks.py 116-150): before run_task returned, or
\* after it, when the completion message could not be published
WorkerRaise(t, o) ==
    /\ celery[t].state \in {"PENDING", "STARTED"}
    /\ celery[t].execution_id # 0
    /\ celery' = [celery EXCEPT ![t].state = "FAILURE"]
    /\ run_outcome' = [run_outcome EXCEPT ![celery[t].execution_id] = o]
    /\ UNCHANGED <<execution_to_task, response, last_set, set_count>>
    /\ UNCHANGED <<evars, lvars, bvars, tvars, dvars>>

\* GET /api/tasks/{execution_id}/status (main.py 189-227)
GetTaskStatus(e) ==
    /\ LET task_id == GetTaskIdByExecutionId(execution_to_task, e)
       IN response' =
            IF task_id = None
            THEN [execution_id |-> e, code |-> 404, task_id |-> None,
                  status |-> "", result |-> "none"]
            ELSE [execution_id |-> e, code |-> 200, task_id |-> task_id,
                  status |-> StatusOf(celery[task_id].state),
                  result |-> IF celery[task_id].state = "SUCCESS"
                             THEN celery[task_id].result ELSE "none"]
    /\ UNCHANGED <<execution_to_task, celery, last_set, set_count, run_outcome>>
    /\ UNCHANGED <<evars, lvars, bvars, tvars, dvars>>

(***************************************************************************)
(* DigitalWillService.save_will and delete_will (services/database.py) on   *)
(* the list _digital_wills_db.                                              *)
(***************************************************************************)
\* the id save_will gives a new entry (database.py 35):
\* f"will_{len(_digital_wills_db) + 1}"
NextWillId(db) == Len(db) + 1

\* DigitalWillService.get_will_by_id (database.py 68-82): the entries the
\* id names; the code returns the first of them
WillsById(db, will_id) == SelectSeq(db, LAMBDA w : w.id = will_id)

\* DigitalWillService.save_will (database.py 17-48)
SaveWill(u, totp) ==
    /\ Len(wills_db) < MaxStore
    /\ wills_db' = Append(wills_db, [id |-> NextWillId(wills_db),
                                     userAddress |-> u, totpSecret |-> totp])
    /\ UNCHANGED removed
    /\ UNCHANGED <<block_number, logs, status, guardians, is_listening,
                   stop_called, lpc, polls, tasks, runs, sends, notices,
                   unseals, fins, handled, agent_tasks>>
    /\ UNCHANGED <<evars, bvars, tvars, kvars>>

\* DigitalWillService.delete_will (database.py 84-101): the list is rebuilt
\* without every entry of that id
DeleteWill(will_id) ==
    /\ wills_db' = SelectSeq(wills_db, LAMBDA w : w.id # will_id)
    /\ removed' = Len(wills_db) - Len(wills_db')
    /\ UNCHANGED <<block_number, logs, status, guardians, is_listening,
                   stop_called, lpc, polls, tasks, runs, sends, notices,
                   unseals, fins, handled, agent_tasks>>
    /\ UNCHANGED <<evars, bvars, tvars, kvars>>

(***************************************************************************)
(* Initial states and the specifications.                                  *)
(***************************************************************************)
\* the store holds n wills of subject 1, the second without a TOTP secret
Store(n) == [i \in 1..n |-> [id |-> i, userAddress |-> 1, totpSecret |-> i = 1]]

\* the store holds n wills, all of subject `owner`
StoreOf(n, owner) ==
    [i \in 1..n |-> [Store(n)[i] EXCEPT !.userAddress = owner]]

\* guardian tuples getUserInfo reports
GuardianSlots ==
    {<<1, 2, 3>>, <<2, ZeroAddress, 1>>,
     <<ZeroAddress, ZeroAddress, ZeroAddress>>}

\* DigitalExecutor.__init__ (executor.py 35-41), no run_task call made yet
ExecutorInit ==
    /\ initialized = FALSE
    /\ playwright = 0
    /\ browser = 0
    /\ llm = FALSE
    /\ pwStarts = 0
    /\ brLaunches = 0
    /\ contexts = <<>>
    /\ pc = [e \in Execs |-> "idle"]
    /\ entry = [e \in Execs |-> "run_task"]
    /\ session = [e \in Execs |-> FALSE]
    /\ max_retries = [e \in Execs |-> MaxRetries]
    /\ attempt = [e \in Execs |-> 0]
    /\ context = [e \in Execs |-> 0]
    /\ cctx = [e \in Execs |-> 0]
    /\ events = [e \in Execs |-> <<>>]
    /\ invocations = [e \in Execs |-> 0]
    /\ failures = [e \in Execs |-> 0]
    /\ last_error = [e \in Execs |-> NoError]
    /\ attempt_log = [e \in Execs |-> <<>>]
    /\ result = [e \in Execs |-> NoResult]
    /\ raised = [e \in Execs |-> FALSE]

\* BlockchainListener.__init__ (blockchain_listener.py 68-71), an empty
\* ledger with every subject ALIVE, the will store db
ListenerInit(db, gs) ==
    /\ block_number = 0
    /\ logs = <<>>
    /\ status = [u \in Users |-> USER_STATUS_ALIVE]
    /\ wills_db = db
    /\ guardians = gs
    /\ is_listening = FALSE
    /\ stop_called = FALSE
    /\ lpc = "idle"
    /\ polls = 0
    /\ tasks = EmptyBag
    /\ runs = [p \in (1..MaxEvents) \X WillIds |-> 0]
    /\ sends = [p \in (1..MaxEvents) \X GuardianIds |-> 0]
    /\ notices = {}
    /\ unseals = {}
    /\ fins = [p \in (1..MaxEvents) \X WillIds |-> 0]
    /\ handled = {}
    /\ agent_tasks = {}

\* WebSocketManager.__init__ (websocket_manager.py 17-19): nobody is
\* connected and nothing was published
BusInit ==
    /\ execution_connections = {}
    /\ sub = [s \in Subs |-> "new"]
    /\ received = [s \in Subs |-> <<>>]
    /\ broken = {}
    /\ joined = [s \in Subs |-> [started |-> 0, returned |-> 0]]
    /\ msg = 0
    /\ spc = "idle"
    /\ it = NoIter
    /\ disconnected = {}
    /\ dropped = {}
    /\ last = NoSend
    /\ active_connections = {}
    /\ bcast = NoBroadcast(0)

\* an empty mapping, no task queued, no request made
TasksInit ==
    /\ execution_to_task = <<>>
    /\ celery = [t \in TaskIds |-> NoRecord]
    /\ response = NoResponse
    /\ last_set = [e \in Execs |-> None]
    /\ set_count = [e \in Execs |-> 0]
    /\ run_outcome = [e \in Execs |-> "none"]

\* no instruction text built yet
NoInstruction ==
    [seed |-> NoSeed, enhanced |-> FALSE, code_text |-> "", at |-> 0]

\* no verify_totp call made yet
NoVerdict == [seed |-> "", code |-> None, genAt |-> 0, at |-> 0, ok |-> FALSE]

\* TotpHandler is stateless; the clock starts one step after the epoch
TotpInit(table) ==
    /\ hotp = table
    /\ clock = TimeStep
    /\ verdict = NoVerdict
    /\ instruction = NoInstruction

\* the components a specification leaves idle
TotpIdle == TotpInit([p \in ValidSeeds \X Counters |-> "000001"])

\* one call at a time, from every caller, with every budget
Init ==
    /\ TotpIdle
    /\ TasksInit
    /\ removed = 0
    /\ ExecutorInit
    /\ BusInit
    /\ apiKey \in BOOLEAN
    /\ workload = [calls |-> {1}, entries |-> Entries, budgets |-> Budgets,
                   captures |-> Captures]
    /\ ListenerInit(Store(0), [u \in Users |-> <<ZeroAddress, ZeroAddress, ZeroAddress>>])

\* NumExecs direct run_task calls in flight together, as the handler tasks
\* of the listener make them (blockchain_listener.py 212-215, 274-276)
InitConcurrent ==
    /\ TotpIdle
    /\ TasksInit
    /\ removed = 0
    /\ ExecutorInit
    /\ BusInit
    /\ apiKey = TRUE
    /\ workload = [calls |-> Execs, entries |-> {"run_task"},
                   budgets |-> {MaxRetries},
                   captures |-> {"no_pages", "captured"}]
    /\ ListenerInit(Store(0), [u \in Users |-> <<ZeroAddress, ZeroAddress, ZeroAddress>>])

InitListener ==
    /\ TotpIdle
    /\ TasksInit
    /\ removed = 0
    /\ ExecutorInit
    /\ BusInit
    /\ apiKey = TRUE
    /\ workload = [calls |-> {}, entries |-> {}, budgets |-> {}, captures |-> {}]
    /\ \E n \in 0..MaxWills, owner \in Users \cup {OtherSubject},
          gs \in [Users -> GuardianSlots] :
         ListenerInit(StoreOf(n, owner), gs)

Next ==
    \/ \E e \in Execs, k \in Entries, s \in BOOLEAN, m \in Budgets :
         Start(e, k, s, m)
    \/ \E e \in Execs : InitEnter(e)
    \/ \E e \in Execs : PlaywrightStarted(e)
    \/ \E e \in Execs : PlaywrightFailed(e)
    \/ \E e \in Execs : BrowserLaunched(e)
    \/ \E e \in Execs : BrowserLaunchFailed(e)
    \/ \E e \in Execs : BeginContext(e)
    \/ \E e \in Execs : NewContext(e)
    \/ \E e \in Execs : NewContextFailed(e)
    \/ \E e \in Execs : SetupSession(e)
    \/ \E e \in Execs : SetupFailed(e)
    \/ \E e \in Execs : AgentSetup(e)
    \/ \E e \in Execs : AgentFailed(e)
    \/ \E e \in Execs : Loop(e)
    \/ \E e \in Execs, capture \in Captures : RunOk(e, capture)
    \/ \E e \in Execs, capture \in Captures : RunFail(e, capture)
    \/ \E e \in Execs : Sleep(e)
    \/ \E e \in Execs, closed \in BOOLEAN : Finally(e, closed)

Spec == Init /\ [][Next]_vars

SpecConcurrent == InitConcurrent /\ [][Next]_vars

NextListener ==
    \/ \E u \in Users, new \in Statuses : StatusChange(u, new)
    \/ \E outcome \in {"no_web3", "no_block", "ok"} : ListenStart(outcome)
    \/ \E ok \in BOOLEAN : Poll(ok)
    \/ Wake
    \/ StopListening
    \/ \E t \in DOMAIN tasks, info \in BOOLEAN : HandlerStart(t, info)
    \/ \E t \in DOMAIN tasks, outcome \in {"returned", "raised"} :
         WillDone(t, outcome)

SpecListener == InitListener /\ [][NextListener]_vars

\* the bus alone: subscribers come and go while the publisher publishes
InitBus ==
    /\ TotpIdle
    /\ TasksInit
    /\ removed = 0
    /\ ExecutorInit
    /\ apiKey = TRUE
    /\ workload = [calls |-> {}, entries |-> {}, budgets |-> {}, captures |-> {}]
    /\ ListenerInit(Store(0), [u \in Users |-> <<ZeroAddress, ZeroAddress, ZeroAddress>>])
    /\ BusInit

NextBus ==
    \/ \E s \in Subs : Connect(s)
    \/ \E s \in Subs : Leave(s)
    \/ \E first \in Subs \cup {0} : Publish(first)
    \/ \E ok \in BOOLEAN, nxt \in Subs \cup {0} : Delivered(ok, nxt)

SpecBus == InitBus /\ [][NextBus]_vars

\* every method of the manager: subscribers come and go, the publisher
\* publishes, personal messages and broadcasts are sent
NextRegistry ==
    \/ NextBus
    \/ \E s \in Subs, ok \in BOOLEAN : SendPersonalMessage(s, ok)
    \/ \E first \in Subs \cup {0} : Broadcast(first)
    \/ \E ok \in BOOLEAN, nxt \in Subs \cup {0} : BroadcastDelivered(ok, nxt)

\* the manager after the websockets beyond the first RegistrySubs have come
\* and gone: Connect(s) and Leave(s) of each, before anything was published
InitRegistry ==
    /\ TotpIdle
    /\ TasksInit
    /\ removed = 0
    /\ ExecutorInit
    /\ apiKey = TRUE
    /\ workload = [calls |-> {}, entries |-> {}, budgets |-> {}, captures |-> {}]
    /\ ListenerInit(Store(0), [u \in Users |-> <<ZeroAddress, ZeroAddress, ZeroAddress>>])
    /\ execution_connections = {}
    /\ sub = [s \in Subs |-> IF s <= RegistrySubs THEN "new" ELSE "closed"]
    /\ received = [s \in Subs |-> <<>>]
    /\ broken = {}
    /\ joined = [s \in Subs |-> [started |-> 0, returned |-> 0]]
    /\ msg = 0
    /\ spc = "idle"
    /\ it = NoIter
    /\ disconnected = {}
    /\ dropped = {}
    /\ last = NoSend
    /\ active_connections = {}
    /\ bcast = NoBroadcast(0)

SpecRegistry == InitRegistry /\ [][NextRegistry]_vars

\* the TOTP handler alone, for every HOTP function
InitTotp ==
    /\ ExecutorInit
    /\ apiKey = TRUE
    /\ workload = [calls |-> {}, entries |-> {}, budgets |-> {}, captures |-> {}]
    /\ ListenerInit(Store(0), [u \in Users |-> <<ZeroAddress, ZeroAddress, ZeroAddress>>])
    /\ BusInit
    /\ TasksInit
    /\ removed = 0
    /\ \E table \in [ValidSeeds \X Counters -> Codes] : TotpInit(table)

NextTotp ==
    \/ \E d \in Ticks : Tick(d)
    \/ \E secret \in ValidSeeds \cup {BadSeed}, g \in Times : Verify(secret, g)

SpecTotp == InitTotp /\ [][NextTotp]_vars

\* the instruction text of a session, for every HOTP function and seed
InitEnhance == InitTotp

NextEnhance ==
    \/ \E d \in Ticks : Tick(d)
    \/ \E secret \in ValidSeeds \cup {BadSeed, NoSeed} :
         BuildInstruction(secret)

SpecEnhance == InitEnhance /\ [][NextEnhance]_vars

\* the task mapping, the workers and the status endpoint
InitTasks ==
    /\ ExecutorInit
    /\ apiKey = TRUE
    /\ workload = [calls |-> {}, entries |-> {}, budgets |-> {}, captures |-> {}]
    /\ ListenerInit(Store(0), [u \in Users |-> <<ZeroAddress, ZeroAddress, ZeroAddress>>])
    /\ BusInit
    /\ TotpIdle
    /\ TasksInit
    /\ removed = 0

NextTasks ==
    \/ \E e \in Execs, t \in TaskIds : SetTaskIdMapping(e, t)
    \/ \E e \in Execs, t \in TaskIds : ExecuteBackground(e, t)
    \/ \E t \in TaskIds : WorkerStart(t)
    \/ \E t \in TaskIds, success \in BOOLEAN : WorkerReturn(t, success)
    \/ \E t \in TaskIds, o \in {"none", "success", "failure"} : WorkerRaise(t, o)
    \/ \E e \in Execs : GetTaskStatus(e)

SpecTasks == InitTasks /\ [][NextTasks]_vars

\* wills are saved and deleted, starting from the empty store
InitStore == InitTasks

NextStore ==
    \/ \E u \in Users \cup {OtherSubject}, totp \in BOOLEAN : SaveWill(u, totp)
    \/ \E will_id \in 1..MaxStore : DeleteWill(will_id)

SpecStore == InitStore /\ [][NextStore]_vars

(***************************************************************************)
(* Properties of DigitalExecutor.                                          *)
(***************************************************************************)
\* positions in events[e] of the execution_completed events with verdict ok
Completed(e, ok) ==
    {i \in DOMAIN events[e] : /\ events[e][i].type = "execution_completed"
                              /\ events[e][i].success = ok}

\* the retry events published for call e
RetryCount(e) ==
    Cardinality({i \in DOMAIN events[e] : events[e][i].type = "retry"})

\* _run_task_with_retry has reported a terminal failure for call e: it has
\* published execution_completed{success: False} or returned its failure dict
TerminalFailure(e) ==
    \/ \E i \in Completed(e, FALSE) : events[e][i].by = "executor"
    \/ /\ result[e].kind = "returned"
       /\ ~result[e].success
       /\ result[e].hasAttempts

\* C1: agent.run is invoked at most max_retries times, and a terminal failure
\* is reported only after exactly max_retries invocations have failed
C1_RetryBudget ==
    \A e \in Execs :
      /\ invocations[e] <= max_retries[e]
      /\ TerminalFailure(e) =>
           /\ invocations[e] = max_retries[e]
           /\ failures[e] = max_retries[e]

\* C1 witness: a call with the budget of 3 has failed three times and
\* returned the failure
C1_Witness ==
    \E e \in Execs :
      /\ max_retries[e] = MaxRetries
      /\ result[e] = ExhaustedResult(MaxRetries, AttemptError(MaxRetries))
      /\ failures[e] = MaxRetries
      /\ Completed(e, FALSE) # {}

\* C2: a successful execution has published exactly one
\* execution_completed{success: True}, and it is the last event of its
\* execution_id, whichever caller ran it
C2_OneCompletedLast ==
    \A e \in Execs :
      (pc[e] = "done" /\ result[e].success) =>
        /\ Cardinality(Completed(e, TRUE)) = 1
        /\ Len(events[e]) \in Completed(e, TRUE)

C4_TerminalEventPublished ==
    \A e \in Execs :
      result[e].kind = "returned" =>
        \E i \in Completed(e, result[e].success) : events[e][i].by = "executor"

\* C5: run_task never lets an exception reach its caller
C5_NeverRaises ==
    \A e \in Execs : ~raised[e]

\* C6: when a run_task call is over, every context opened for it has been
\* closed (a close that raised counts as the release having been made)
C6_ContextsReleased ==
    \A e \in Execs :
      pc[e] = "done" =>
        \A c \in DOMAIN contexts :
          contexts[c].creator = e => contexts[c].closed # "open"

\* C7: each call uses a context of its own: a context is passed to an agent,
\* captured from and closed only by the call that created it, and no two
\* calls hold the same context
C7_ContextsNeverShared ==
    /\ \A c \in DOMAIN contexts :
         /\ contexts[c].users \subseteq {contexts[c].creator}
         /\ contexts[c].closers \subseteq {contexts[c].creator}
    /\ \A e \in Execs :
         context[e] # 0 =>
           /\ context[e] \in DOMAIN contexts
           /\ contexts[context[e]].creator = e
    /\ \A e1, e2 \in Execs :
         (e1 # e2 /\ context[e1] # 0) => context[e1] # context[e2]

\* C7 witness: two calls are in their retry loops together, each with its
\* own open context that its agent has used
C7_Witness ==
    \E e1, e2 \in Execs :
      /\ e1 # e2
      /\ pc[e1] = "run"
      /\ pc[e2] = "run"
      /\ context[e1] # context[e2]
      /\ e1 \in contexts[context[e1]].users
      /\ e2 \in contexts[context[e2]].users
      /\ contexts[context[e1]].closed = "open"
      /\ contexts[context[e2]].closed = "open"

(***************************************************************************)
(* Properties of BlockchainListener.                                       *)
(***************************************************************************)
\* C8: decrypt_credential returns a plaintext only for a subject whose
\* on-chain status is DECEASED at the time of the call
C8_UnsealOnlyWhenDeceased ==
    \A r \in unseals : r.plaintext => r.status = USER_STATUS_DECEASED

\* C9: for a transition to DECEASED on the ledger, no will of the subject is
\* executed more than once, however many polling cycles see the event
C9_WillsExecutedOnce ==
    \A ev \in DOMAIN logs, w \in WillIds :
      logs[ev].newStatus = USER_STATUS_DECEASED => runs[<<ev, w>>] <= 1

\* C10: for a transition to PENDING_VERIFICATION on the ledger, no guardian
\* is sent the notification more than once, however many polling cycles see
\* the event
C10_GuardiansNotifiedOnce ==
    \A ev \in DOMAIN logs, g \in GuardianIds :
      logs[ev].newStatus = USER_STATUS_PENDING_VERIFICATION =>
        sends[<<ev, g>>] <= 1

\* C11: started with a configured contract, listen_for_events returns only
\* after stop_listening has been called, whatever ledger query fails
C11_ReturnsOnlyAfterStop ==
    lpc = "returned" => stop_called

\* the wills of the subject of event ev, as the handler fetches them
EventWills(ev) == WillsOf(wills_db, logs[ev].user)

\* C12: a finished handler of a DECEASED event has fetched the wills and
\* processed each of them; of a PENDING_VERIFICATION event has notified the
\* guardians and fetched and processed no will; of an ALIVE event has done
\* neither
C12_DispatchByStatus ==
    \A h \in handled :
      LET new == logs[h.ev].newStatus
      IN /\ new = USER_STATUS_DECEASED =>
              /\ h.fetched
              /\ h.processed = Len(EventWills(h.ev))
         /\ new = USER_STATUS_PENDING_VERIFICATION =>
              /\ h.notified
              /\ ~h.fetched
              /\ h.processed = 0
         /\ new = USER_STATUS_ALIVE =>
              /\ ~h.notified
              /\ ~h.fetched
              /\ h.processed = 0

\* a step of a handler task: the bag of tasks changes within a polling cycle
HandlerStep == tasks' # tasks /\ polls' = polls

\* C13: no step of a handler task, failing or not, moves listen_for_events
\* or stops it, and a polling cycle that dispatches creates one task for
\* every event of its window, whatever the earlier handlers did
C13_HandlersIsolated ==
    [][/\ HandlerStep => /\ lpc' = lpc
                          /\ is_listening' = is_listening
       /\ (polls' # polls /\ tasks' # tasks) =>
            \A i \in EventsInWindow(block_number) :
              CopiesIn(Task(i, "created", <<>>, 0, {}), tasks') =
                CopiesIn(Task(i, "created", <<>>, 0, {}), tasks) + 1]_vars

\* C13 witness: during the first cycle the handler of one event failed on
\* the user-info query and the handler of another event finished, and the
\* loop has polled again and sleeps
C13_Witness ==
    /\ polls = MaxPolls
    /\ lpc = "sleep"
    /\ \E h1, h2 \in handled :
         /\ ~h1.info
         /\ h1.cycle = 1
         /\ h2.info
         /\ h2.ev # h1.ev
         /\ h2.cycle = 1

StartsNextEarly(t) ==
    /\ NextListener
    /\ runs'[<<t.ev, t.wills[t.wi + 1]>>] > runs[<<t.ev, t.wills[t.wi + 1]>>]
    /\ fins'[<<t.ev, t.wills[t.wi]>>] = fins[<<t.ev, t.wills[t.wi]>>]

\* C15 as stated: while the execution of a will is in flight, the execution
\* of the subject's next will can start
C15_SecondCanStartEarly ==
    \A t \in DOMAIN tasks :
      (t.pc = "running" /\ t.wi < Len(t.wills)) => ENABLED StartsNextEarly(t)

\* C15 amended: the wills of one dispatched event are executed one after
\* another: the executions started for a will never outnumber the returns of
\* the processing of the will before it
C15_WillsSequential ==
    \A ev \in DOMAIN logs :
      \A i \in 1..(Len(EventWills(ev)) - 1) :
        runs[<<ev, EventWills(ev)[i + 1]>>] <= fins[<<ev, EventWills(ev)[i]>>]

\* C15 witness: the execution of a second will is in flight, after the
\* processing of the first has returned
C15_Witness ==
    \E t \in DOMAIN tasks :
      /\ t.pc = "running"
      /\ t.wi = 2
      /\ fins[<<t.ev, t.wills[1]>>] >= 1
      /\ runs[<<t.ev, t.wills[2]>>] >= 1

\* the text tells the agent how to handle 2FA
Mentions2fa(text) == \E i \in DOMAIN text : text[i] \in TwoFaSentences

\* C16: the task text handed to the agent for a will stored without a TOTP
\* secret holds no 2FA handling instruction
C16_No2faWithoutSeed ==
    \A r \in agent_tasks : ~r.totp => ~Mentions2fa(r.text)

C26_DeadlineFromLastSeen ==
    \A n \in notices : n.deadline = n.lastSeen + GRACE_PERIOD_HOURS

\* the sends a finished handler made: those of its event and of the cycle
\* during which it ran
NoticesOf(h) == {n \in notices : n.ev = h.ev /\ n.cycle = h.cycle}

\* C27: a finished handler of a PENDING_VERIFICATION event has attempted a
\* send for every slot that holds a guardian with an email, whatever came
\* before it in the tuple (an empty slot, a guardian without email, a send
\* that failed), and for no other slot
C27_EveryGuardianAttempted ==
    \A h \in handled :
      (logs[h.ev].newStatus = USER_STATUS_PENDING_VERIFICATION /\ h.info) =>
        LET gs == guardians[logs[h.ev].user]
        IN /\ h.notified
           /\ \A i \in DOMAIN gs :
                (gs[i] # ZeroAddress /\ HasEmail(gs[i])) <=>
                  \E n \in NoticesOf(h) : n.slot = i /\ n.guardian = gs[i]
           /\ \A n \in NoticesOf(h) :
                /\ n.guardian # ZeroAddress
                /\ n.slot \in DOMAIN gs

\* C27 witness: for the guardians <<1, 2, 3>>, of which 2 has no email, the
\* send to guardian 1 failed and the send to guardian 3 was made
C27_Witness ==
    \E h \in handled :
      /\ logs[h.ev].newStatus = USER_STATUS_PENDING_VERIFICATION
      /\ guardians[logs[h.ev].user] = <<1, 2, 3>>
      /\ \E n1, n3 \in NoticesOf(h) :
           /\ n1.slot = 1
           /\ ~n1.ok
           /\ n3.slot = 3
      /\ \A n \in NoticesOf(h) : n.slot # 2

\* C28: for a subject without a will in the store, get_wills_by_user gives
\* the empty list, and a handler of a DECEASED event of the subject ends
\* (after the fetch, when the user-info query has answered) having processed
\* no will: nothing was unsealed for the subject and no execution started
C28_NoWillsNothingDone ==
    \A h \in handled :
      LET u == logs[h.ev].user
      IN (/\ logs[h.ev].newStatus = USER_STATUS_DECEASED
          /\ \A i \in DOMAIN wills_db : wills_db[i].userAddress # u) =>
           /\ WillsOf(wills_db, u) = <<>>
           /\ h.info => h.fetched
           /\ h.processed = 0
           /\ h.bad = {}
           /\ \A r \in unseals : r.user # u
           /\ \A w \in WillIds : runs[<<h.ev, w>>] = 0
           /\ \A r \in agent_tasks : wills_db[r.will].userAddress # u

\* C28 witness: the store holds the wills of another subject, and a handler
\* of a DECEASED event of a subject without wills has finished
C28_Witness ==
    \E h \in handled :
      /\ logs[h.ev].newStatus = USER_STATUS_DECEASED
      /\ h.info
      /\ h.fetched
      /\ Len(wills_db) = MaxWills
      /\ \A i \in DOMAIN wills_db : wills_db[i].userAddress = OtherSubject

\* a step of the pipeline: of listen_for_events or of a handler task
PipelineStep ==
    \/ lpc' # lpc
    \/ polls' # polls
    \/ is_listening' # is_listening
    \/ tasks' # tasks
    \/ handled' # handled

\* C29: no step of the pipeline adds, changes or deletes a record of the
\* will store, whatever events it handles and however the executions end
C29_StoreReadOnly ==
    [][PipelineStep => wills_db' = wills_db]_vars

\* C29 witness: the handlers of a PENDING_VERIFICATION event and of a
\* DECEASED event have finished, both wills were processed, run_task raised
\* for the first, and the store holds its two wills
C29_Witness ==
    /\ wills_db = StoreOf(MaxWills, 1)
    /\ \E h1, h2 \in handled :
         /\ logs[h1.ev].newStatus = USER_STATUS_PENDING_VERIFICATION
         /\ h1.notified
         /\ logs[h2.ev].newStatus = USER_STATUS_DECEASED
         /\ h2.processed = MaxWills
         /\ h2.bad = {1}

(***************************************************************************)
(* More properties of DigitalExecutor.                                     *)
(***************************************************************************)
\* C20: when agent.run has failed on each of the three attempts of an
\* execution with max_retries = 3, the execution has published
\* execution_completed{success: False} and returns success = False,
\* attempts = 3 and the error of the third attempt
C20_ExhaustedOutcome ==
    \A e \in Execs :
      (/\ max_retries[e] = MaxRetries
       /\ failures[e] = MaxRetries
       /\ result[e].kind = "returned") =>
        /\ \E i \in Completed(e, FALSE) : events[e][i].by = "executor"
        /\ ~result[e].success
        /\ result[e].hasAttempts
        /\ result[e].attempts = MaxRetries
        /\ result[e].error = AttemptError(MaxRetries)

\* C20 witness: an execution with max_retries = 3 has returned after three
\* failed attempts
C20_Witness ==
    \E e \in Execs :
      /\ max_retries[e] = MaxRetries
      /\ failures[e] = MaxRetries
      /\ invocations[e] = MaxRetries
      /\ result[e].kind = "returned"
      /\ pc[e] = "done"

\* the messages _emit_event published for call e, the callers' own left out
ExecutorEvents(e) == SelectSeq(events[e], LAMBDA m : m.by = "executor")

\* C21: when agent.run has failed on attempts 1..k and returned on attempt
\* k + 1, the outcome is success = True with attempts = k + 1, k retry events
\* were published, agent.run was invoked k + 1 times and never again, and the
\* last event the executor published is execution_completed{success: True}
C21_SuccessAfterFailures ==
    \A e \in Execs :
      (result[e].kind = "returned" /\ result[e].success) =>
        /\ failures[e] < max_retries[e]
        /\ result[e].hasAttempts
        /\ result[e].attempts = failures[e] + 1
        /\ RetryCount(e) = failures[e]
        /\ invocations[e] = failures[e] + 1
        /\ LET ex == ExecutorEvents(e)
           IN /\ ex # <<>>
              /\ ex[Len(ex)].type = "execution_completed"
              /\ ex[Len(ex)].success

\* C21 witness: a call whose first two attempts failed has returned the
\* success of the third and is over
C21_Witness ==
    \E e \in Execs :
      /\ max_retries[e] = MaxRetries
      /\ failures[e] = 2
      /\ result[e] = SuccessResult(3)
      /\ RetryCount(e) = 2
      /\ pc[e] = "done"

\* the positions of ExecutorEvents(e) that hold a message of this type and
\* step status
Positions(e, type, st) ==
    {i \in DOMAIN ExecutorEvents(e) : /\ ExecutorEvents(e)[i].type = type
                                      /\ ExecutorEvents(e)[i].status = st}

\* call e was made without session data and its first agent.run returned
FirstCallSucceeded(e) ==
    /\ ~session[e]
    /\ result[e].kind = "returned"
    /\ result[e].success
    /\ failures[e] = 0

\* C22 as stated: an execution without session data whose first agent.run
\* returns gives success = True, attempts = 1 and has published exactly three
\* events: the started one, one completed step and the completed one
C22_ThreeEvents ==
    \A e \in Execs :
      FirstCallSucceeded(e) =>
        /\ result[e].attempts = 1
        /\ Len(ExecutorEvents(e)) = 3

\* C22 amended: such an execution gives success = True, attempts = 1; the
\* executor has published execution_started first, execution_completed
\* {success: True} last, one completed step for the attempt, around them the
\* in_progress and completed steps of the context, of the agent and of the
\* attempt, `initializing` when the executor was not initialized and a
\* screenshot when one was captured: 8 to 10 events, none of them a retry, a
\* failed step or an error
C22_StartedStepsCompleted ==
    \A e \in Execs :
      FirstCallSucceeded(e) =>
        LET ex == ExecutorEvents(e)
            types == {ex[i].type : i \in DOMAIN ex}
        IN /\ result[e].hasAttempts
           /\ result[e].attempts = 1
           /\ Len(ex) >= 8
           /\ Len(ex) <= 10
           /\ ex[1].type = "execution_started"
           /\ ex[Len(ex)].type = "execution_completed"
           /\ ex[Len(ex)].success
           /\ Cardinality({i \in DOMAIN ex : ex[i].type = "execution_started"}) = 1
           /\ Cardinality({i \in Positions(e, "step", "completed") :
                             ex[i].step = "execute"}) = 1
           /\ Cardinality(Positions(e, "step", "completed")) = 3
           /\ Cardinality(Positions(e, "step", "in_progress")) = 3
           /\ Len(ex) = 8 + Cardinality({i \in DOMAIN ex :
                                  ex[i].type \in {"initializing", "screenshot"}})
           /\ types \cap {"retry", "error"} = {}
           /\ Positions(e, "step", "failed") = {}

\* C22 witness: a direct call without session data is over, its first
\* agent.run returned and no screenshot was captured
C22_Witness ==
    \E e \in Execs :
      /\ FirstCallSucceeded(e)
      /\ entry[e] = "run_task"
      /\ pc[e] = "done"
      /\ attempt_log[e] = <<[ran |-> "returned", capture |-> "no_pages"]>>
      /\ Len(events[e]) = 9

\* the attempts of call e for which agent.run ended as `ran`
Ended(e, ran) == {i \in DOMAIN attempt_log[e] : attempt_log[e][i].ran = ran}

\* the attempts of call e whose capture ended as `capture`
CapturesOf(e, capture) ==
    {i \in DOMAIN attempt_log[e] : attempt_log[e][i].capture = capture}

\* C23: the verdict, the attempt count and the making of a further attempt
\* follow from how the agent.run calls ended, whatever became of the
\* captures: the except branch ran for the raising calls only, a success is
\* the success of the last attempt, a failure has max_retries raising
\* attempts, a further attempt is on its way exactly after a raising attempt
\* that was not the last of the budget; and a screenshot event was published
\* for the captures that gave one, none for a capture skipped without pages
\* or failed
C23_CaptureIsSideChannel ==
    \A e \in Execs :
      LET n == Len(attempt_log[e])
      IN /\ invocations[e] = n + (IF pc[e] = "run" THEN 1 ELSE 0)
         /\ failures[e] = Cardinality(Ended(e, "raised"))
         /\ (result[e].kind = "returned" /\ result[e].hasAttempts) =>
              IF result[e].success
              THEN /\ Ended(e, "returned") = {n}
                   /\ result[e].attempts = n
              ELSE /\ Ended(e, "returned") = {}
                   /\ n = max_retries[e]
                   /\ result[e].attempts = n
         /\ (n >= 1 /\ pc[e] # "run") =>
              IF attempt_log[e][n].ran = "raised" /\ n < max_retries[e]
              THEN /\ pc[e] \in {"sleep", "loop"}
                   /\ attempt[e] \in {n, n + 1}
                   /\ InRange(attempt[e], max_retries[e])
                   /\ result[e].kind = "none"
              ELSE /\ pc[e] \in {"loop", "finally", "done"}
                   /\ pc[e] = "loop" => ~InRange(attempt[e], max_retries[e])
         /\ Cardinality({i \in DOMAIN events[e] :
                           events[e][i].type = "screenshot"}) =
              Cardinality(CapturesOf(e, "captured"))

\* C23 witness: a call is over with success at the third attempt; the
\* capture failed after the first, raising, attempt and after the successful
\* one, and was skipped without pages after the second
C23_Witness ==
    \E e \in Execs :
      /\ pc[e] = "done"
      /\ result[e] = SuccessResult(3)
      /\ attempt_log[e] = <<[ran |-> "raised", capture |-> "failed"],
                            [ran |-> "raised", capture |-> "no_pages"],
                            [ran |-> "returned", capture |-> "failed"]>>

\* C24: one DigitalExecutor starts at most one Playwright instance and
\* launches at most one browser, however its run_task calls interleave
C24_OneEngine ==
    /\ pwStarts <= 1
    /\ brLaunches <= 1

\* C30: every message published for an execution, by the executor or by
\* execute_ai_task, has the top-level fields type, execution_id, data and
\* timestamp
C30_WireShape ==
    \A e \in Execs :
      \A i \in DOMAIN events[e] :
        events[e][i].by \in {"executor", "job"} =>
          {"type", "execution_id", "data", "timestamp"} \subseteq events[e][i].keys

\* C31: every outcome run_task returns carries an attempts count, and it is
\* the number of agent.run calls made for the execution
C31_AttemptsCountInvocations ==
    \A e \in Execs :
      result[e].kind = "returned" =>
        /\ result[e].hasAttempts
        /\ result[e].attempts = invocations[e]

\* C34: of the events of a failed attempt N the failure screenshot tagged N,
\* when there is one, comes before the failed step of N, the failed step
\* before the retry of N, and the retry before the in_progress step of
\* attempt N + 1
C34_FailureEventOrder ==
    \A e \in Execs :
      LET ex == ExecutorEvents(e)
          IsShot(m) == m.type = "screenshot" /\ m.step = "failure"
          IsStep(m, st) == m.type = "step" /\ m.step = "execute" /\ m.status = st
      IN \A i, j \in DOMAIN ex :
           /\ (/\ IsShot(ex[i])
               /\ IsStep(ex[j], "failed")
               /\ ex[i].attempt = ex[j].attempt) => i < j
           /\ (/\ IsStep(ex[i], "failed")
               /\ ex[j].type = "retry"
               /\ ex[i].attempt = ex[j].attempt) => i < j
           /\ (/\ ex[i].type = "retry"
               /\ IsStep(ex[j], "in_progress")
               /\ ex[j].attempt = ex[i].attempt + 1) => i < j

(***************************************************************************)
(* Properties of WebSocketManager.                                         *)
(***************************************************************************)
\* the messages websocket s was sent
Got(s) == {received[s][i] : i \in DOMAIN received[s]}

\* C17: once a send_to_execution call in which the delivery to some
\* subscriber failed is over, that subscriber is out of the registry, every
\* other subscriber of the call that is still registered was sent the
\* message, and the call did not raise
C17_FailedDeliveryIsolated ==
    (spc = "idle" /\ last.failed # {}) =>
      /\ ~last.raised
      /\ last.failed \cap execution_connections = {}
      /\ \A s \in (last.targets \ last.failed) \cap execution_connections :
           last.m \in Got(s)

\* C18: a websocket is sent no message whose send_to_execution call was over
\* before it was registered, and a message published while nobody was
\* registered is sent to nobody
C18_NoReplay ==
    \A s \in Subs :
      \A m \in Got(s) : m > joined[s].returned /\ m \notin dropped

\* C18 witness: the first message was published while nobody was registered,
\* a websocket was registered afterwards and was sent the second message
C18_Witness ==
    \E s \in Subs :
      /\ 1 \in dropped
      /\ joined[s].returned = 1
      /\ received[s] = <<2>>

\* C19: a websocket registered before the first message was published,
\* still served and registered when the publisher is between two messages,
\* and to which no delivery failed, was sent every message published so
\* far, once each, in the order of publication
C19_SteadySubscriberInOrder ==
    \A s \in Subs :
      (/\ spc = "idle"
       /\ sub[s] = "open"
       /\ s \in execution_connections
       /\ s \notin broken
       /\ joined[s].started = 0) =>
        received[s] = [i \in 1..msg |-> i]

\* C36: once a send_to_execution call is over, every websocket that was
\* registered when the call started, is still served and to which no
\* delivery failed was sent the message, whoever else came or went meanwhile
C36_DeliveredToAllAtStart ==
    last.m # 0 =>
      \A s \in last.targets :
        (sub[s] = "open" /\ s \notin broken) => last.m \in Got(s)

\* C37: whatever was called and whichever deliveries failed, every websocket
\* registered under the execution_id is in active_connections (the set of
\* an execution_id is kept only while it has members: the key is absent when
\* execution_connections is empty)
C37_RegistryConsistent ==
    execution_connections \subseteq active_connections

(***************************************************************************)
(* Properties of TotpHandler.                                              *)
(***************************************************************************)
\* the steps between the generation and the verification of the last code
StepsApart ==
    LET a == TimeCode(verdict.at)
        g == TimeCode(verdict.genAt)
    IN IF a >= g THEN a - g ELSE g - a

\* C32 as stated: verify_totp accepts a code generated for the same seed at
\* the step of the verification, at the step before and at the step after,
\* and rejects a code generated three steps away
C32_WindowAsStated ==
    verdict.seed \in ValidSeeds =>
      /\ StepsApart <= 1 => verdict.ok
      /\ StepsApart = 3 => ~verdict.ok

\* C32 amended: verify_totp accepts the codes of the step of the
\* verification, of the step before and of the step after, and no other
\* code: a code generated further away is rejected unless it coincides with
\* one of these three
C32_WindowOfThree ==
    verdict.seed \in ValidSeeds =>
      LET c == TimeCode(verdict.at)
      IN /\ StepsApart <= 1 => verdict.ok
         /\ verdict.ok <=>
              verdict.code \in {hotp[<<verdict.seed, k>>] : k \in (c - 1)..(c + 1)}

\* C32 witness: a code generated three steps after the time of the
\* verification, different from the three codes of the window, was rejected
C32_Witness ==
    /\ verdict.seed \in ValidSeeds
    /\ TimeCode(verdict.genAt) = TimeCode(verdict.at) + 3
    /\ verdict.code \notin
         {hotp[<<verdict.seed, k>>] :
            k \in (TimeCode(verdict.at) - 1)..(TimeCode(verdict.at) + 1)}
    /\ ~verdict.ok

\* C35: when the session carries a TOTP seed the instruction text holds
\* the six-digit code of that seed current when the text was built, and no
\* instruction text tells to use a code that is missing
C35_InstructionHoldsCode ==
    /\ instruction.seed \in ValidSeeds =>
         /\ instruction.enhanced
         /\ instruction.code_text \in Codes
         /\ instruction.code_text =
              hotp[<<instruction.seed, TimeCode(instruction.at)>>]
    /\ instruction.enhanced => instruction.code_text # "None"

(***************************************************************************)
(* Properties of the task mapping and of the status endpoint.              *)
(***************************************************************************)
\* C33: get_task_id_by_execution_id(e) is the task id last set for e, for
\* every e at once (a set for one id leaves the others alone); it is None for
\* an id that was never set, and the status endpoint answers 200 only for an
\* id that was set
C33_MappingIsLastSet ==
    /\ \A e \in Execs :
         GetTaskIdByExecutionId(execution_to_task, e) = last_set[e]
    /\ \A e \in Execs : set_count[e] = 0 => last_set[e] = None
    /\ response.code = 200 => set_count[response.execution_id] > 0
    /\ response.code = 404 => response.task_id = None

\* C33 witness: one id was set twice and holds the later task id, the other
\* keeps its own, and an id never set was answered with 404 before
C33_Witness ==
    /\ set_count[1] = 2
    /\ last_set[1] = "t2"
    /\ set_count[2] = 1
    /\ last_set[2] = "t1"
    /\ GetTaskIdByExecutionId(execution_to_task, 2) = "t1"
    /\ response.code = 404
    /\ response.execution_id = 2

\* the execution was queued through /execute and its mapping still names
\* the task queued for it
QueuedThroughExecute(e) ==
    /\ e \in DOMAIN execution_to_task
    /\ celery[execution_to_task[e]].execution_id = e

\* C38: for an execution queued through /execute, a request to the status
\* endpoint is answered "failed" whenever the outcome of the execution has
\* success false, and "completed" only when the outcome has success true
C38_StatusFollowsOutcome ==
    [][\A e \in Execs :
         (GetTaskStatus(e) /\ QueuedThroughExecute(e)) =>
           /\ run_outcome[e] = "failure" => response'.status = "failed"
           /\ response'.status = "completed" => run_outcome[e] = "success"]_vars

(***************************************************************************)
(* Properties of DigitalWillService.                                       *)
(***************************************************************************)
\* C39: whatever was saved and deleted, no two wills of the store have the
\* same id: an id names at most one will and delete_will takes out at most
\* one
C39_IdsUnique ==
    /\ \A i, j \in DOMAIN wills_db :
         wills_db[i].id = wills_db[j].id => i = j
    /\ \A will_id \in 1..MaxStore : Len(WillsById(wills_db, will_id)) <= 1
    /\ removed <= 1

====
